---- MODULE Spec2Model ----
(***************************************************************************)
(* The decision-and-execution pipeline of trading-oms: the outer loop      *)
(* (orchestrator.main_loop), one orchestration_cycle (validate, risk gate, *)
(* audit row, entry price, order submission, position row), the            *)
(* mark-to-market sweep (refresh_pnl_from_broker) and the persistence      *)
(* operations of db.py, with the pure decision functions of agents.py and  *)
(* order_executor.py as operators.                                         *)
(*                                                                         *)
(* Units.  Option prices are integers in cents (get_option_mid_price       *)
(* returns round(price, 2)); a pnl is in dollars, so                        *)
(* round((current - entry) * 100, 2) is the difference of the two prices   *)
(* in cents.  Account amounts are integer dollars.  Scores are integers in *)
(* thousandths (the code rounds them to 3 places), percentages for the     *)
(* drawdown message in hundredths of a percent (formatted with .2f).       *)
(* Python's None for a score is NoScore.  Strings that the code tests by   *)
(* prefix (broker symbols, underlyings) are sequences of characters.       *)
(***************************************************************************)
EXTENDS Integers, Sequences, FiniteSets, TLC

VARIABLES
    db_pool,          \* db.db_pool: TRUE once init_db has created the pool, FALSE for None
    shadow_mode,      \* SHADOW_MODE of the process environment
    pc,               \* position of the single loop task
    cycles,           \* number of orchestration_cycle calls started so far
    approved_trades,  \* table approved_trades, rows in insertion order
    positions,        \* table positions, row i has id i
    submit_calls,     \* calls of client.submit_order made so far (accepted or not)
    ideas,            \* orchestration_cycle: ideas
    idx,              \* orchestration_cycle: index of the loop variable idea in ideas
    validation,       \* orchestration_cycle: validation
    risk_result,      \* orchestration_cycle: risk_result
    entry_price,      \* orchestration_cycle: entry_price
    result,           \* orchestration_cycle: result of submit_option_order
    open_positions,   \* refresh_pnl_from_broker: ids of the rows get_open_positions returned
    sweep_j,          \* refresh_pnl_from_broker: index of pos in open_positions
    current_price,    \* refresh_pnl_from_broker: current_price
    decisions,        \* history: the verdicts reached in the current cycle, in order
    trades_at_start,  \* history: Len(approved_trades) when the current cycle started
    positions_at_start, \* history: Len(positions) when the current cycle started
    risk_in,          \* input of one check_risk evaluation (risk specification)
    risk_out,         \* its result (risk specification)
    snapshot,         \* history: what get_market_state gave the current cycle
    exec_in,          \* input of one submit_option_order call (executor specification)
    exec_out,         \* its result (executor specification)
    quant_in,         \* input of one QuantAgent.validate call (validator specification)
    quant_out,        \* its result (validator specification)
    strategist_in,    \* input of one generate_ideas call (strategist specification)
    strategist_out    \* its result (strategist specification)

vars == << db_pool, shadow_mode, pc, cycles, approved_trades, positions,
           submit_calls, ideas, idx, validation, risk_result, entry_price, result,
           open_positions, sweep_j, current_price, decisions, trades_at_start,
           positions_at_start, risk_in, risk_out, snapshot, exec_in, exec_out,
           quant_in, quant_out, strategist_in, strategist_out >>

cycle_vars == << db_pool, shadow_mode, pc, cycles, approved_trades, positions,
                 submit_calls, ideas, idx, validation, risk_result, entry_price, result,
                 open_positions, sweep_j, current_price, decisions, trades_at_start,
                 positions_at_start >>

risk_vars == << risk_in, risk_out >>

exec_vars == << exec_in, exec_out >>

pure_vars == << quant_in, quant_out, strategist_in, strategist_out >>

history_marks == << trades_at_start, positions_at_start >>

----------------------------------------------------------------------------
(* Bounds of the exploration *)

\* orchestration_cycle is started at most this many times
MaxCycles == 1
\* unrelated positions a broker portfolio of the risk specification may hold
MaxFill == 8

----------------------------------------------------------------------------
(* Helpers *)

NoScore == -1

Abs(x) == IF x < 0 THEN -x ELSE x

\* round(n / d) for d > 0, ties to even as Python's round
RoundDiv(n, d) ==
    LET q == n \div d
        r == n % d
    IN  IF 2 * r < d THEN q
        ELSE IF 2 * r > d THEN q + 1
        ELSE IF q % 2 = 0 THEN q ELSE q + 1

RECURSIVE SumSeq(_)
SumSeq(s) == IF s = << >> THEN 0 ELSE Head(s) + SumSeq(Tail(s))

RECURSIVE Rep(_, _)
Rep(x, n) == IF n = 0 THEN << >> ELSE << x >> \o Rep(x, n - 1)

\* str.startswith
startswith(s, prefix) ==
    /\ Len(prefix) <= Len(s)
    /\ SubSeq(s, 1, Len(prefix)) = prefix

Range(s) == { s[k] : k \in DOMAIN s }

SeqsUpTo(S, n) == UNION { [1..k -> S] : k \in 0..n }

----------------------------------------------------------------------------
(* agents.py: StrategistAgent *)

SPY  == << "S", "P", "Y" >>
AAPL == << "A", "A", "P", "L" >>
TSLA == << "T", "S", "L", "A" >>
NVDA == << "N", "V", "D", "A" >>
QQQ  == << "Q", "Q", "Q" >>

\* generate_ideas: underlyings
underlyings == << SPY, AAPL, TSLA, NVDA, QQQ >>

\* what random.choice draws for the three candidates in the cycles explored
CyclePicks == { << underlyings[1], underlyings[5], underlyings[2] >> }

Strategies == << "straddle", "iron_condor", "calendar_spread" >>

NoMarketState == [ none |-> TRUE ]

\* get_market_state: the snapshot derived from the fetched vix, SPY closes and
\* iv rank; None when any fetch raises.  feed.mean_change_neg is
\* spy["Close"].pct_change().mean() < 0, feed.close_up is Close[-1] > Close[-5].
get_market_state(feed) ==
    IF ~feed.ok THEN NoMarketState
    ELSE [ none     |-> FALSE,
           iv_rank  |-> feed.iv_rank,
           skew     |-> IF feed.vix < 20 THEN "flat"
                        ELSE IF feed.mean_change_neg THEN "steep_put" ELSE "steep_call",
           vix      |-> feed.vix,
           momentum |-> IF feed.close_up THEN "bullish" ELSE "bearish",
           regime   |-> IF feed.vix > 25 THEN "high_vol" ELSE "low_vol" ]

\* a scoring whose straddle rule looks at the regime only
score_strategy_RegimeOnly(strategy, ms) ==
    IF strategy = "straddle" THEN (IF ms.regime = "high_vol" THEN 25 ELSE 0)
    ELSE IF strategy = "iron_condor" THEN
        (IF ms.iv_rank < 35 /\ ms.skew = "flat" /\ ms.vix < 22 THEN 50 ELSE 0)
        + (IF ms.regime = "low_vol" THEN 30 ELSE 0)
    ELSE IF strategy = "calendar_spread" THEN
        (IF ms.skew \in { "steep_call", "steep_put" } /\ ms.momentum # "neutral"
            THEN 40 ELSE 0)
        + (IF ms.skew # "flat" THEN 25 ELSE 0)
    ELSE 0

\* a scoring whose iron condor rule does not look at the skew
score_strategy_AnySkew(strategy, ms) ==
    IF strategy = "straddle" THEN
        (IF ms.iv_rank > 65 /\ ms.vix > 25 THEN 45 ELSE 0)
        + (IF ms.regime = "high_vol" THEN 25 ELSE 0)
    ELSE IF strategy = "iron_condor" THEN
        (IF ms.iv_rank < 35 /\ ms.vix < 22 THEN 50 ELSE 0)
        + (IF ms.regime = "low_vol" THEN 30 ELSE 0)
    ELSE IF strategy = "calendar_spread" THEN
        (IF ms.skew \in { "steep_call", "steep_put" } /\ ms.momentum # "neutral"
            THEN 40 ELSE 0)
        + (IF ms.skew # "flat" THEN 25 ELSE 0)
    ELSE 0

\* generate_ideas.score_strategy, in hundredths
score_strategy(strategy, ms) ==
    IF strategy = "straddle" THEN
        (IF ms.iv_rank > 65 /\ ms.vix > 25 THEN 45 ELSE 0)
        + (IF ms.regime = "high_vol" THEN 25 ELSE 0)
    ELSE IF strategy = "iron_condor" THEN
        (IF ms.iv_rank < 35 /\ ms.skew = "flat" /\ ms.vix < 22 THEN 50 ELSE 0)
        + (IF ms.regime = "low_vol" THEN 30 ELSE 0)
    ELSE IF strategy = "calendar_spread" THEN
        (IF ms.skew \in { "steep_call", "steep_put" } /\ ms.momentum # "neutral"
            THEN 40 ELSE 0)
        + (IF ms.skew # "flat" THEN 25 ELSE 0)
    ELSE 0

\* the idea generate_ideas appends for one candidate: confidence in thousandths
\* is round(0.55 + score * 0.4, 3); the rationale string carries the score and
\* the snapshot fields
MakeIdea(strategy, underlying, ms) ==
    LET score == score_strategy(strategy, ms)
    IN  [ strategy   |-> strategy,
          underlying |-> underlying,
          confidence |-> 550 + score * 4,
          rationale  |-> << score, ms.iv_rank, ms.skew, ms.vix, ms.momentum >> ]

\* a strategist that emits at the threshold as well
RECURSIVE IdeasFrom_AtThreshold(_, _, _)
IdeasFrom_AtThreshold(k, ms, pick) ==
    IF k > Len(Strategies) THEN << >>
    ELSE (IF score_strategy(Strategies[k], ms) >= 30
            THEN << MakeIdea(Strategies[k], pick[k], ms) >>
            ELSE << >>)
         \o IdeasFrom_AtThreshold(k + 1, ms, pick)

RECURSIVE IdeasFrom(_, _, _)
IdeasFrom(k, ms, pick) ==
    IF k > Len(Strategies) THEN << >>
    ELSE (IF score_strategy(Strategies[k], ms) > 30
            THEN << MakeIdea(Strategies[k], pick[k], ms) >>
            ELSE << >>)
         \o IdeasFrom(k + 1, ms, pick)

\* a strategist that falls back to a default high-volatility snapshot
generate_ideas_Default(ms, pick) ==
    IdeasFrom(1, IF ms.none THEN [ none |-> FALSE, iv_rank |-> 80, skew |-> "steep_put",
                                   vix |-> 30, momentum |-> "bullish",
                                   regime |-> "high_vol" ]
                 ELSE ms, pick)

\* generate_ideas: pick[k] is the underlying random.choice drew for candidate k
generate_ideas(ms, pick) ==
    IF ms.none THEN << >> ELSE IdeasFrom(1, ms, pick)

----------------------------------------------------------------------------
(* agents.py: QuantAgent *)

\* close_price of a listed contract that has none
NoPrice == -1

\* _validate_alpaca on a chain that was fetched: chain is the sequence of the
\* contracts' close_price in hundredths (NoPrice for None)
validate_alpaca(chain) ==
    IF chain = << >> THEN
        [ valid |-> FALSE, reason |-> "No options chain data from Alpaca", score |-> NoScore ]
    ELSE
        LET ivs == SelectSeq(chain, LAMBDA c : c # NoPrice)
            n   == Len(ivs)
        IN  IF n = 0 \/ SumSeq(ivs) <= 0 THEN
                [ valid |-> FALSE, reason |-> "IV data unavailable", score |-> NoScore ]
            ELSE
                LET s == 500 + RoundDiv(SumSeq(ivs) * 10, n)
                IN  [ valid |-> TRUE, reason |-> "",
                      score |-> IF s > 980 THEN 980 ELSE s ]

\* the outcome of a call that an exception leaves
Raised == [ valid |-> FALSE, reason |-> "raised", score |-> NoScore ]

\* a secondary validation without its try/except
validate_yfinance_NoExcept(yf) ==
    IF yf.raises THEN Raised
    ELSE IF ~yf.has_dates THEN
        [ valid |-> FALSE, reason |-> "No options data from yfinance", score |-> NoScore ]
    ELSE [ valid |-> FALSE, reason |-> "Empty options chain", score |-> NoScore ]

\* _validate_yfinance: yf.calls is the calls frame as a sequence of
\* [volume, iv] (NaN filled with 0 by the code, iv in hundredths)
validate_yfinance(yf) ==
    IF yf.raises THEN
        [ valid |-> FALSE, reason |-> "yfinance validation error", score |-> NoScore ]
    ELSE IF ~yf.has_dates THEN
        [ valid |-> FALSE, reason |-> "No options data from yfinance", score |-> NoScore ]
    ELSE IF yf.calls = << >> THEN
        [ valid |-> FALSE, reason |-> "Empty options chain", score |-> NoScore ]
    ELSE
        LET n    == Len(yf.calls)
            vols == SumSeq([ k \in 1..n |-> yf.calls[k].volume ])
            ivsum == SumSeq([ k \in 1..n |-> yf.calls[k].iv ])
        IN  IF vols < 10 * n THEN
                [ valid |-> FALSE, reason |-> "Insufficient options liquidity",
                  score |-> NoScore ]
            ELSE
                LET s == 500 + RoundDiv(ivsum * 10, n)
                IN  [ valid |-> TRUE, reason |-> "",
                      score |-> IF s > 980 THEN 980 ELSE s ]

\* validate: the primary source, the secondary one when the primary raises
validate(alpaca, yf) ==
    IF alpaca.raises THEN validate_yfinance(yf) ELSE validate_alpaca(alpaca.chain)

----------------------------------------------------------------------------
(* agents.py: GuardianAgent *)

NoReason == [ msg |-> "", pct |-> 0, underlying |-> << >> ]

Reason(m) == [ msg |-> m, pct |-> 0, underlying |-> << >> ]

\* sum(float(p.unrealized_pl) for p in positions)
TotalUnrealized(ps) == SumSeq([ k \in 1..Len(ps) |-> ps[k].unrealized_pl ])

\* sum(abs(float(p.market_value)) for p in positions if p.symbol.startswith(underlying))
Exposure(ps, underlying) ==
    SumSeq([ k \in 1..Len(ps) |->
               IF startswith(ps[k].symbol, underlying)
                 THEN Abs(ps[k].market_value) ELSE 0 ])

\* what makes a statement of the try block raise: get_account or
\* get_all_positions failing, or a position whose unrealized_pl is not a number
RiskRaises(broker) ==
    \/ ~broker.account_ok
    \/ ~broker.positions_ok
    \/ \E k \in 1..Len(broker.positions) : ~broker.positions[k].pl_ok

\* the per-idea cost estimate of the margin check, dollars
idea_cost == 1000

\* a drawdown test that does not look at the sign of the equity
DrawdownExceeded_AnyEquity(equity, pl) == pl * 100 < -5 * equity

\* drawdown_pct < -5, where drawdown_pct is pl / equity * 100, or 0 when equity <= 0
DrawdownExceeded(equity, pl) == equity > 0 /\ pl * 100 < -5 * equity

\* the limit itself counted as exceeded
ConcentrationExceeded_AtLimit(equity, exposure) ==
    equity > 0 /\ exposure * 100 >= 20 * equity

\* equity > 0 and (underlying_exposure / equity) > 0.20
ConcentrationExceeded(equity, exposure) == equity > 0 /\ exposure * 100 > 20 * equity

\* buying_power < idea_cost * 2
BuyingPowerShort(buying_power) == buying_power < idea_cost * 2

Rejected(reason) == [ approved |-> FALSE, reason |-> reason, risk_score |-> NoScore ]

\* the position count tested before the drawdown
RiskVerdict_CountFirst(validated_idea, broker) ==
    LET equity   == broker.equity
        ps       == broker.positions
        pl       == TotalUnrealized(ps)
        pct      == IF equity > 0 THEN RoundDiv(pl * 10000, equity) ELSE 0
        exposure == Exposure(ps, validated_idea.underlying)
    IN  IF Len(ps) >= 10 THEN
            Rejected(Reason("Max 10 open positions reached"))
        ELSE IF DrawdownExceeded(equity, pl) THEN
            Rejected([ msg |-> "Drawdown limit exceeded", pct |-> pct,
                       underlying |-> << >> ])
        ELSE IF ConcentrationExceeded(equity, exposure) THEN
            Rejected([ msg |-> "Concentration limit exceeded", pct |-> 0,
                       underlying |-> validated_idea.underlying ])
        ELSE IF BuyingPowerShort(broker.buying_power) THEN
            Rejected(Reason("Insufficient buying power"))
        ELSE
            [ approved |-> TRUE, reason |-> NoReason,
              risk_score |-> IF equity > 0
                               THEN RoundDiv(Abs(pl) * 20000, equity) ELSE 0 ]

\* the body of check_risk's try block once account and positions are fetched
RiskVerdict(validated_idea, broker) ==
    LET equity   == broker.equity
        ps       == broker.positions
        pl       == TotalUnrealized(ps)
        pct      == IF equity > 0 THEN RoundDiv(pl * 10000, equity) ELSE 0
        exposure == Exposure(ps, validated_idea.underlying)
    IN  IF DrawdownExceeded(equity, pl) THEN
            Rejected([ msg |-> "Drawdown limit exceeded", pct |-> pct,
                       underlying |-> << >> ])
        ELSE IF Len(ps) >= 10 THEN
            Rejected(Reason("Max 10 open positions reached"))
        ELSE IF ConcentrationExceeded(equity, exposure) THEN
            Rejected([ msg |-> "Concentration limit exceeded", pct |-> 0,
                       underlying |-> validated_idea.underlying ])
        ELSE IF BuyingPowerShort(broker.buying_power) THEN
            Rejected(Reason("Insufficient buying power"))
        ELSE
            [ approved |-> TRUE, reason |-> NoReason,
              risk_score |-> IF equity > 0
                               THEN RoundDiv(Abs(pl) * 20000, equity) ELSE 0 ]

\* an except clause that carries on with an empty portfolio
check_risk_FailOpen(validated_idea, broker) ==
    RiskVerdict(validated_idea,
                [ broker EXCEPT !.positions = SelectSeq(@, LAMBDA p : p.pl_ok) ])

\* check_risk: the try block, and the except clause that turns whatever it
\* raises into a rejection; the result is a return value in every case
check_risk(validated_idea, broker) ==
    IF RiskRaises(broker)
      THEN Rejected(Reason("Risk check error"))
      ELSE RiskVerdict(validated_idea, broker)

----------------------------------------------------------------------------
(* price_fetcher.py *)

\* get_option_mid_price: quote.chain is the close_price of the listed
\* contracts in cents (NoPrice for None), quote.raises a failing chain
\* request, quote.spot what get_spot_price_fallback returns (0 when yfinance
\* fails too).  The result is the median by price of the priced contracts.
get_option_mid_price(quote) ==
    IF quote.raises \/ quote.chain = << >> THEN quote.spot
    ELSE
        LET valid  == SelectSeq(quote.chain, LAMBDA c : c # NoPrice /\ c > 0)
            sorted == SortSeq(valid, LAMBDA a, b : a < b)
        IN  IF valid = << >> THEN quote.spot
            ELSE sorted[(Len(valid) \div 2) + 1]

----------------------------------------------------------------------------
(* order_executor.py *)

NoContract == [ type |-> "none", strike |-> 0, close |-> 0 ]

\* strike * 100 distance to a target given in hundredths of a dollar
Dist(c, target) == Abs(c.strike * 100 - target)

\* a filter that forgets the close_price test
find_strike_AnyPrice(contracts, option_type, target) ==
    LET filtered == SelectSeq(contracts,
                        LAMBDA c : c.type = option_type /\ c.strike # 0)
    IN  IF filtered = << >> THEN NoContract
        ELSE LET best == CHOOSE k \in 1..Len(filtered) :
                            /\ \A m \in 1..Len(filtered) :
                                  Dist(filtered[k], target) <= Dist(filtered[m], target)
                            /\ \A m \in 1..(k - 1) :
                                  Dist(filtered[m], target) > Dist(filtered[k], target)
             IN  filtered[best]

\* find_strike: the first contract, in chain order, of the wanted type with a
\* strike and a positive close_price that minimises |strike - target|;
\* NoContract for None.  target is in hundredths of a dollar.
find_strike(contracts, option_type, target) ==
    LET filtered == SelectSeq(contracts,
                        LAMBDA c : c.type = option_type /\ c.strike # 0 /\ c.close > 0)
    IN  IF filtered = << >> THEN NoContract
        ELSE LET best == CHOOSE k \in 1..Len(filtered) :
                            /\ \A m \in 1..Len(filtered) :
                                  Dist(filtered[k], target) <= Dist(filtered[m], target)
                            /\ \A m \in 1..(k - 1) :
                                  Dist(filtered[m], target) > Dist(filtered[k], target)
             IN  filtered[best]

\* a submission loop that takes back the accepted orders when a later one fails
SubmitLegs_RollBack(kind, legs, accepted) ==
    IF accepted >= Len(legs) THEN
        [ success |-> TRUE, kind |-> kind, reason |-> "",
          legs |-> legs, calls |-> Len(legs) ]
    ELSE
        [ success |-> FALSE, kind |-> kind, reason |-> "submit_order raised",
          legs |-> << >>, calls |-> accepted + 1 ]

\* the submission loop over resolved legs: the broker accepts the first
\* `accepted` submit_order calls of this strategy and raises on the next one
SubmitLegs(kind, legs, accepted) ==
    IF accepted >= Len(legs) THEN
        [ success |-> TRUE, kind |-> kind, reason |-> "",
          legs |-> legs, calls |-> Len(legs) ]
    ELSE
        [ success |-> FALSE, kind |-> kind, reason |-> "submit_order raised",
          legs |-> SubSeq(legs, 1, accepted), calls |-> accepted + 1 ]

Failure(kind, reason) ==
    [ success |-> FALSE, kind |-> kind, reason |-> reason, legs |-> << >>, calls |-> 0 ]

Leg(label, side, c) == [ label |-> label, side |-> side, strike |-> c.strike ]

\* an executor that submits each leg as soon as it is resolved
submit_iron_condor_Eager(ex) ==
    IF ex.raises THEN Failure("iron_condor", "get_chain raised")
    ELSE IF ex.chain = << >> THEN Failure("iron_condor", "No chain")
    ELSE IF ex.spot <= 0 THEN Failure("iron_condor", "Could not get spot price")
    ELSE
        LET short_put  == find_strike(ex.chain, "put",  ex.spot * 100 - ex.spot * 5)
            long_put   == find_strike(ex.chain, "put",  ex.spot * 100 - ex.spot * 8)
            short_call == find_strike(ex.chain, "call", ex.spot * 100 + ex.spot * 5)
            long_call  == find_strike(ex.chain, "call", ex.spot * 100 + ex.spot * 8)
            resolved   == SelectSeq(<< short_put, long_put, short_call, long_call >>,
                                    LAMBDA c : c # NoContract)
        IN  IF Len(resolved) < 4 THEN
                [ success |-> FALSE, kind |-> "iron_condor",
                  reason |-> "Could not find all 4 iron condor strikes",
                  legs |-> [ k \in 1..Len(resolved) |-> Leg("leg", "sell", resolved[k]) ],
                  calls |-> Len(resolved) ]
            ELSE
                SubmitLegs("iron_condor",
                           << Leg("short_put", "sell", short_put),
                              Leg("long_put", "buy", long_put),
                              Leg("short_call", "sell", short_call),
                              Leg("long_call", "buy", long_call) >>,
                           ex.accepted)

\* an iron condor whose wings sit inside its short strikes
submit_iron_condor_SwappedWings(ex) ==
    IF ex.raises THEN Failure("iron_condor", "get_chain raised")
    ELSE IF ex.chain = << >> THEN Failure("iron_condor", "No chain")
    ELSE IF ex.spot <= 0 THEN Failure("iron_condor", "Could not get spot price")
    ELSE
        LET short_put  == find_strike(ex.chain, "put",  ex.spot * 100 - ex.spot * 8)
            long_put   == find_strike(ex.chain, "put",  ex.spot * 100 - ex.spot * 5)
            short_call == find_strike(ex.chain, "call", ex.spot * 100 + ex.spot * 8)
            long_call  == find_strike(ex.chain, "call", ex.spot * 100 + ex.spot * 5)
        IN  IF NoContract \in { short_put, long_put, short_call, long_call } THEN
                Failure("iron_condor", "Could not find all 4 iron condor strikes")
            ELSE
                SubmitLegs("iron_condor",
                           << Leg("short_put", "sell", short_put),
                              Leg("long_put", "buy", long_put),
                              Leg("short_call", "sell", short_call),
                              Leg("long_call", "buy", long_call) >>,
                           ex.accepted)

\* submit_iron_condor; ex.spot is in dollars
submit_iron_condor(ex) ==
    IF ex.raises THEN Failure("iron_condor", "get_chain raised")
    ELSE IF ex.chain = << >> THEN Failure("iron_condor", "No chain")
    ELSE IF ex.spot <= 0 THEN Failure("iron_condor", "Could not get spot price")
    ELSE
        LET short_put  == find_strike(ex.chain, "put",  ex.spot * 100 - ex.spot * 5)
            long_put   == find_strike(ex.chain, "put",  ex.spot * 100 - ex.spot * 8)
            short_call == find_strike(ex.chain, "call", ex.spot * 100 + ex.spot * 5)
            long_call  == find_strike(ex.chain, "call", ex.spot * 100 + ex.spot * 8)
        IN  IF NoContract \in { short_put, long_put, short_call, long_call } THEN
                Failure("iron_condor", "Could not find all 4 iron condor strikes")
            ELSE
                SubmitLegs("iron_condor",
                           << Leg("short_put", "sell", short_put),
                              Leg("long_put", "buy", long_put),
                              Leg("short_call", "sell", short_call),
                              Leg("long_call", "buy", long_call) >>,
                           ex.accepted)

\* submit_calendar_spread
submit_calendar_spread(ex) ==
    IF ex.raises THEN Failure("calendar_spread", "get_chain raised")
    ELSE IF ex.spot <= 0 THEN Failure("calendar_spread", "Could not get spot price")
    ELSE IF ex.near_chain = << >> \/ ex.far_chain = << >> THEN
        Failure("calendar_spread", "Insufficient chain data for calendar spread")
    ELSE
        LET near_leg == find_strike(ex.near_chain, "call", ex.spot * 100)
            far_leg  == find_strike(ex.far_chain,  "call", ex.spot * 100)
        IN  IF near_leg = NoContract \/ far_leg = NoContract THEN
                Failure("calendar_spread", "Could not find ATM strikes for calendar")
            ELSE
                SubmitLegs("calendar_spread",
                           << Leg("short_near_call", "sell", near_leg),
                              Leg("long_far_call", "buy", far_leg) >>,
                           ex.accepted)

\* submit_single_leg_fallback: buys the median-by-price contract of the chain
\* it fetches itself (ex.fb_chain); ex.fb_accepted is the broker's answer
submit_single_leg_fallback(ex) ==
    IF ex.fb_raises THEN Failure("single_leg_fallback", "Fallback also failed")
    ELSE IF ex.fb_chain = << >> THEN Failure("single_leg_fallback", "No chain in fallback")
    ELSE
        LET valid  == SelectSeq(ex.fb_chain, LAMBDA c : c.close > 0)
            sorted == SortSeq(valid, LAMBDA a, b : a.close < b.close)
        IN  IF valid = << >> THEN
                Failure("single_leg_fallback", "No valid contracts in fallback")
            ELSE IF ~ex.fb_accepted THEN
                [ success |-> FALSE, kind |-> "single_leg_fallback",
                  reason |-> "Fallback also failed", legs |-> << >>, calls |-> 1 ]
            ELSE
                [ success |-> TRUE, kind |-> "single_leg_fallback", reason |-> "",
                  legs |-> << Leg("fallback", "buy", sorted[(Len(valid) \div 2) + 1]) >>,
                  calls |-> 1 ]

\* an entry point that reports the routed path's failure as it is
submit_option_order_NoFallback(strategy, ex) ==
    LET first == IF strategy = "iron_condor" THEN submit_iron_condor(ex)
                 ELSE IF strategy = "calendar_spread" THEN submit_calendar_spread(ex)
                 ELSE Failure(strategy, "Unknown strategy")
    IN  [ success |-> first.success, kind |-> first.kind, reason |-> first.reason,
          legs |-> first.legs, calls |-> first.calls, fallback |-> FALSE ]

\* submit_option_order: the routed multi-leg result, or the fallback's result
\* when the routed path failed.  legs and calls add up what reached the broker
\* on both paths; first is the routed path's own result.
submit_option_order(strategy, ex) ==
    LET first == IF strategy = "iron_condor" THEN submit_iron_condor(ex)
                 ELSE IF strategy = "calendar_spread" THEN submit_calendar_spread(ex)
                 ELSE Failure(strategy, "Unknown strategy")
    IN  IF ~first.success THEN
            LET fb == submit_single_leg_fallback(ex)
            IN  [ success |-> fb.success, kind |-> fb.kind, reason |-> fb.reason,
                  legs |-> first.legs \o fb.legs, calls |-> first.calls + fb.calls,
                  fallback |-> TRUE ]
        ELSE
            [ success |-> TRUE, kind |-> first.kind, reason |-> "",
              legs |-> first.legs, calls |-> first.calls, fallback |-> FALSE ]

\* the keys of the dict submit_option_order returns: only the fallback's
\* success dict has "contract" and "order_id"
HasContractKey(res) == res.success /\ res.kind = "single_leg_fallback"

----------------------------------------------------------------------------
(* db.py *)

NoText == ""

\* an INSERT that records the position as settled already
log_position_Settled(table, idea, price) ==
    Append(table, [ underlying     |-> idea.underlying,
                    strategy       |-> idea.strategy,
                    entry_price    |-> price,
                    current_price  |-> price,
                    unrealized_pnl |-> 0,
                    status         |-> "closed",
                    close_reason   |-> NoText,
                    closed_timestamp |-> FALSE ])

\* log_position: the INSERT; status takes the column default
log_position(table, idea, price) ==
    Append(table, [ underlying     |-> idea.underlying,
                    strategy       |-> idea.strategy,
                    entry_price    |-> price,
                    current_price  |-> price,
                    unrealized_pnl |-> 0,
                    status         |-> "open",
                    close_reason   |-> NoText,
                    closed_timestamp |-> FALSE ])

\* approval used as a filter: only approved ideas are written
log_approved_trade_ApprovedOnly(table, idea, v, r) ==
    IF r.approved
      THEN Append(table, [ underlying  |-> idea.underlying,
                           strategy    |-> idea.strategy,
                           confidence  |-> idea.confidence,
                           quant_score |-> v.score,
                           risk_score  |-> r.risk_score,
                           rationale   |-> idea.rationale,
                           approved    |-> TRUE ])
      ELSE table

\* log_approved_trade: the INSERT
log_approved_trade(table, idea, v, r) ==
    Append(table, [ underlying  |-> idea.underlying,
                    strategy    |-> idea.strategy,
                    confidence  |-> idea.confidence,
                    quant_score |-> IF v.valid THEN v.score ELSE NoScore,
                    risk_score  |-> IF r.approved THEN r.risk_score ELSE NoScore,
                    rationale   |-> idea.rationale,
                    approved    |-> r.approved ])

\* update_pnl_by_id(conn, position_id, current_pnl): the UPDATE
update_pnl_by_id(table, position_id, current_pnl) ==
    [ table EXCEPT ![position_id].unrealized_pnl = current_pnl ]

\* close_position_by_id: the UPDATE
close_position_by_id(table, position_id, realized_pnl, reason) ==
    [ table EXCEPT ![position_id] =
        [ @ EXCEPT !.status = "closed",
                   !.unrealized_pnl = realized_pnl,
                   !.close_reason = reason,
                   !.closed_timestamp = TRUE ] ]

\* a SELECT that lost its WHERE clause
get_open_positions_All(table) == [ k \in 1..Len(table) |-> k ]

\* get_open_positions: the ids of the rows WHERE status = 'open', by id
get_open_positions(table) ==
    SelectSeq([ k \in 1..Len(table) |-> k ], LAMBDA k : table[k].status = "open")

\* the reject reason an approved_trades row holds: the table has no column
\* for one and the INSERT writes none
RejectReasonOf(row) == NoText

\* the number of parameters update_pnl_by_id declares
update_pnl_by_id_params == 3
\* the number of arguments refresh_pnl_from_broker passes to it
update_pnl_call_args == 4

----------------------------------------------------------------------------
(* What the collaborators may answer during a cycle *)

Feed(ok, vix, iv_rank) ==
    [ ok |-> ok, vix |-> vix, iv_rank |-> iv_rank,
      mean_change_neg |-> TRUE, close_up |-> TRUE ]

\* market data: unavailable; calm with middling iv rank (nothing scores above
\* 0.30); calm with low iv rank (iron condor); vix 22 (calendar spread);
\* vix 30 with high iv rank (straddle and calendar spread)
CycleFeeds ==
    { Feed(FALSE, 0, 0), Feed(TRUE, 15, 50), Feed(TRUE, 15, 20),
      Feed(TRUE, 22, 50), Feed(TRUE, 30, 80) }

\* the primary chain request: raises, returns no contract, returns one priced 0.30
CycleAlpaca ==
    { [ raises |-> TRUE,  chain |-> << >> ],
      [ raises |-> FALSE, chain |-> << >> ],
      [ raises |-> FALSE, chain |-> << 30 >> ] }

\* the secondary source: raises, or lists one liquid call
CycleYfinance ==
    { [ raises |-> TRUE,  has_dates |-> FALSE, calls |-> << >> ],
      [ raises |-> FALSE, has_dates |-> TRUE,
        calls |-> << [ volume |-> 100, iv |-> 30 ] >> ] }

BrokerPosition(symbol, pl, mv) ==
    [ symbol |-> symbol, unrealized_pl |-> pl, market_value |-> mv, pl_ok |-> TRUE ]

Portfolio(account_ok, positions_ok, equity, buying_power, ps) ==
    [ account_ok |-> account_ok, positions_ok |-> positions_ok, equity |-> equity,
      buying_power |-> buying_power, positions |-> ps ]

\* an option position on SPY, as the broker names it
SPYOption == SPY \o << "2", "5", "C" >>

\* the brokerage during a cycle: get_account raises; a healthy empty account;
\* an account holding ten positions
CycleBrokers ==
    { Portfolio(FALSE, TRUE, 0, 0, << >>),
      Portfolio(TRUE, TRUE, 10000, 5000, << >>),
      Portfolio(TRUE, TRUE, 10000, 5000, Rep(BrokerPosition(SPYOption, 0, 100), 10)) }

\* the execution-price resolver: nothing priced and no spot (0.0), or a chain
\* whose median contract closed at 0.50, 2.00 or 4.00
EntryQuotes ==
    { [ raises |-> TRUE,  chain |-> << >>, spot |-> 0 ],
      [ raises |-> FALSE, chain |-> << 400, NoPrice, 200, 50 >>, spot |-> 0 ] }

CycleQuotes ==
    { [ raises |-> TRUE,  chain |-> << >>, spot |-> 0 ],
      [ raises |-> FALSE, chain |-> << 50 >>, spot |-> 0 ],
      [ raises |-> FALSE, chain |-> << 400, NoPrice, 200, 50 >>, spot |-> 0 ],
      [ raises |-> FALSE, chain |-> << NoPrice >>, spot |-> 400 ] }

Contract(type, strike, close) == [ type |-> type, strike |-> strike, close |-> close ]

FullChain ==
    << Contract("put", 92, 120), Contract("put", 95, 150), Contract("put", 97, 180),
       Contract("put", 103, 400), Contract("call", 103, 300), Contract("call", 105, 200),
       Contract("call", 108, 100), Contract("call", 112, 50) >>

CallsOnly == << Contract("call", 100, 250), Contract("call", 105, 200) >>

Exec(chain, accepted, fb_chain, fb_accepted) ==
    [ raises |-> FALSE, chain |-> chain, near_chain |-> chain, far_chain |-> chain,
      spot |-> 100, accepted |-> accepted,
      fb_raises |-> FALSE, fb_chain |-> fb_chain, fb_accepted |-> fb_accepted ]

\* the brokerage and chain provider during an order submission: everything
\* accepted; no chain at all; only calls listed; the broker rejecting the
\* second leg and then accepting or rejecting the fallback's order
CycleExec ==
    { Exec(FullChain, 4, FullChain, TRUE),
      Exec(<< >>, 0, << >>, FALSE),
      Exec(CallsOnly, 4, CallsOnly, TRUE),
      Exec(FullChain, 1, FullChain, TRUE),
      Exec(FullChain, 1, FullChain, FALSE) }

----------------------------------------------------------------------------
(* The positions table when the process starts: rows earlier runs left *)

take_profit == 200
stop_loss == -150

TakeProfitReason == "Take-profit hit (+$200)"
StopLossReason == "Stop-loss hit (-$150)"

LedgerRow(entry, pnl, status, reason) ==
    [ underlying |-> SPY, strategy |-> "straddle", entry_price |-> entry,
      current_price |-> entry, unrealized_pnl |-> pnl, status |-> status,
      close_reason |-> reason, closed_timestamp |-> status = "closed" ]

InitLedgers ==
    { << >>,
      << LedgerRow(200, 0, "open", NoText) >>,
      << LedgerRow(200, 250, "closed", TakeProfitReason),
         LedgerRow(200, -150, "closed", StopLossReason) >> }

----------------------------------------------------------------------------
(* State of the loop task *)

NoValidation == [ valid |-> FALSE, reason |-> "", score |-> NoScore ]
NoRisk == [ approved |-> FALSE, reason |-> NoReason, risk_score |-> NoScore ]
NoResult == [ success |-> FALSE, kind |-> "", reason |-> "", calls |-> 0, accepted |-> 0 ]

NoRiskIn == [ underlying |-> << >>, broker |-> Portfolio(TRUE, TRUE, 0, 0, << >>) ]

NoExecIn == [ strategy |-> "", ex |-> Exec(<< >>, 0, << >>, FALSE) ]
NoExecOut == [ success |-> FALSE, kind |-> "", reason |-> "", legs |-> << >>,
               calls |-> 0, fallback |-> FALSE ]

NoQuantIn == [ alpaca |-> [ raises |-> FALSE, chain |-> << >> ],
               yf |-> [ raises |-> FALSE, has_dates |-> FALSE, calls |-> << >> ] ]

NoStrategistIn == [ ms |-> NoMarketState, pick |-> << >> ]

Init ==
    /\ db_pool = FALSE
    /\ shadow_mode \in BOOLEAN
    /\ pc = "lifespan"
    /\ cycles = 0
    /\ approved_trades = << >>
    /\ positions \in InitLedgers
    /\ submit_calls = 0
    /\ ideas = << >>
    /\ idx = 0
    /\ validation = NoValidation
    /\ risk_result = NoRisk
    /\ entry_price = 0
    /\ result = NoResult
    /\ open_positions = << >>
    /\ sweep_j = 0
    /\ current_price = 0
    /\ decisions = << >>
    /\ trades_at_start = 0
    /\ positions_at_start = Len(positions)
    /\ risk_in = NoRiskIn
    /\ risk_out = NoRisk
    /\ snapshot = "not_fetched"
    /\ exec_in = NoExecIn
    /\ exec_out = NoExecOut
    /\ quant_in = NoQuantIn
    /\ quant_out = NoValidation
    /\ strategist_in = NoStrategistIn
    /\ strategist_out = << >>

\* the loop variable of "for idea in ideas"
idea == ideas[idx]

\* the verdict on the current idea, for the history
Decision(valid, approved, reason) ==
    [ strategy |-> idea.strategy, underlying |-> idea.underlying,
      valid |-> valid, approved |-> approved, reason |-> reason ]

\* a loop over ideas that refreshes the ledger after each idea
NextIdea_SweepEach ==
    /\ validation' = NoValidation
    /\ risk_result' = NoRisk
    /\ entry_price' = 0
    /\ result' = NoResult
    /\ idx' = idx
    /\ pc' = "refresh"

\* the end of one iteration of the loop over ideas: the next idea, or the
\* statements after the loop (the sweep)
NextIdea ==
    /\ validation' = NoValidation
    /\ risk_result' = NoRisk
    /\ entry_price' = 0
    /\ result' = NoResult
    /\ IF idx < Len(ideas)
         THEN idx' = idx + 1 /\ pc' = "validate"
         ELSE idx' = idx /\ pc' = "refresh"

\* main.py lifespan: init_db, then the loop task is created
Lifespan ==
    /\ pc = "lifespan"
    /\ db_pool' = TRUE
    /\ pc' = "cycle"
    /\ UNCHANGED << shadow_mode, cycles, approved_trades, positions,
                    submit_calls, ideas, idx, validation, risk_result, entry_price,
                    result, open_positions, sweep_j, current_price, decisions,
                    history_marks, risk_vars, exec_vars, pure_vars, snapshot >>

\* a cycle that generates ideas whether the market is open or not
CycleStart_TradeWhenClosed ==
    /\ pc = "cycle"
    /\ cycles < MaxCycles
    /\ cycles' = cycles + 1
    /\ decisions' = << >>
    /\ trades_at_start' = Len(approved_trades)
    /\ positions_at_start' = Len(positions)
    /\ \E is_open \in BOOLEAN, feed \in CycleFeeds, pick \in CyclePicks :
          LET market_state == get_market_state(feed)
              new == generate_ideas(market_state, pick)
          IN  IF market_state.none \/ new = << >> THEN
                  /\ pc' = IF is_open THEN "sleep" ELSE "refresh"
                  /\ ideas' = << >>
                  /\ idx' = 0
                  /\ snapshot' = IF ~is_open THEN "not_fetched"
                                 ELSE IF market_state.none THEN "unavailable"
                                 ELSE "obtained"
              ELSE
                  /\ pc' = "validate"
                  /\ ideas' = new
                  /\ idx' = 1
                  /\ snapshot' = IF is_open THEN "obtained" ELSE "not_fetched"
    /\ UNCHANGED << db_pool, shadow_mode, approved_trades, positions,
                    submit_calls, validation, risk_result, entry_price, result,
                    open_positions, sweep_j, current_price,
                    risk_vars, exec_vars, pure_vars >>

\* orchestration_cycle up to the loop over ideas
CycleStart ==
    /\ pc = "cycle"
    /\ cycles < MaxCycles
    /\ cycles' = cycles + 1
    /\ decisions' = << >>
    /\ trades_at_start' = Len(approved_trades)
    /\ positions_at_start' = Len(positions)
    /\ \E is_open \in BOOLEAN, feed \in CycleFeeds, pick \in CyclePicks :
          LET market_state == get_market_state(feed)
              new == generate_ideas(market_state, pick)
          IN  IF ~is_open THEN
                  /\ pc' = "refresh"
                  /\ ideas' = << >>
                  /\ idx' = 0
                  /\ snapshot' = "not_fetched"
              ELSE IF market_state.none \/ new = << >> THEN
                  /\ pc' = "sleep"
                  /\ ideas' = << >>
                  /\ idx' = 0
                  /\ snapshot' = IF market_state.none THEN "unavailable" ELSE "obtained"
              ELSE
                  /\ pc' = "validate"
                  /\ ideas' = new
                  /\ idx' = 1
                  /\ snapshot' = "obtained"
    /\ UNCHANGED << db_pool, shadow_mode, approved_trades, positions,
                    submit_calls, validation, risk_result, entry_price, result,
                    open_positions, sweep_j, current_price,
                    risk_vars, exec_vars, pure_vars >>

\* validation = quant.validate(idea); an invalid idea is printed and skipped
Validate ==
    /\ pc = "validate"
    /\ \E alpaca \in CycleAlpaca, yf \in CycleYfinance :
          LET v == validate(alpaca, yf)
          IN  IF v.valid THEN
                  /\ validation' = v
                  /\ pc' = "check_risk"
                  /\ decisions' = decisions
                  /\ UNCHANGED << idx, risk_result, entry_price, result >>
              ELSE
                  /\ decisions' = Append(decisions, Decision(FALSE, FALSE, v.reason))
                  /\ NextIdea
    /\ UNCHANGED << db_pool, shadow_mode, cycles, approved_trades, positions,
                    submit_calls, ideas, open_positions, sweep_j, current_price,
                    history_marks, risk_vars, exec_vars, pure_vars, snapshot >>

\* risk_result = guardian.check_risk(idea)
CheckRisk ==
    /\ pc = "check_risk"
    /\ \E broker \in CycleBrokers :
          LET r == check_risk(idea, broker)
          IN  /\ risk_result' = r
              /\ decisions' = Append(decisions, Decision(TRUE, r.approved, r.reason.msg))
    /\ pc' = "log_approved_trade"
    /\ UNCHANGED << db_pool, shadow_mode, cycles, approved_trades, positions,
                    submit_calls, ideas, idx, validation, entry_price, result,
                    open_positions, sweep_j, current_price, history_marks,
                    risk_vars, exec_vars, pure_vars, snapshot >>

\* "if db.db_pool is not None: await log_approved_trade(...)", then the branch
\* on risk_result["approved"]
LogApprovedTrade ==
    /\ pc = "log_approved_trade"
    /\ approved_trades' = IF db_pool
                            THEN log_approved_trade(approved_trades, idea, validation,
                                                    risk_result)
                            ELSE approved_trades
    /\ IF risk_result.approved
         THEN /\ pc' = "entry_price"
              /\ UNCHANGED << idx, validation, risk_result, entry_price, result >>
         ELSE NextIdea
    /\ UNCHANGED << db_pool, shadow_mode, cycles, positions, submit_calls,
                    ideas, open_positions, sweep_j, current_price, decisions,
                    history_marks, risk_vars, exec_vars, pure_vars, snapshot >>

\* a cycle that ignores SHADOW_MODE
AfterEntryPrice_Submit == "submit"

\* "if not shadow_mode": where the cycle goes once the entry price is known
AfterEntryPrice == IF shadow_mode THEN "log_position" ELSE "submit"

\* entry_price = get_option_mid_price(...), then "if not shadow_mode"
EntryPrice ==
    /\ pc = "entry_price"
    /\ \E quote \in EntryQuotes : entry_price' = get_option_mid_price(quote)
    /\ pc' = AfterEntryPrice
    /\ UNCHANGED << db_pool, shadow_mode, cycles, approved_trades, positions,
                    submit_calls, ideas, idx, validation, risk_result, result,
                    open_positions, sweep_j, current_price, decisions,
                    history_marks, risk_vars, exec_vars, pure_vars, snapshot >>

\* result = submit_option_order(...) and the print that follows it: the
\* success print reads result['contract'] and result['order_id'], a KeyError
\* on a dict without them
SubmitOrder ==
    /\ pc = "submit"
    /\ \E ex \in CycleExec :
          LET r == submit_option_order(idea.strategy, ex)
          IN  /\ result' = [ success |-> r.success, kind |-> r.kind, reason |-> r.reason,
                             calls |-> r.calls, accepted |-> Len(r.legs) ]
              /\ submit_calls' = submit_calls + r.calls
              /\ pc' = IF r.success /\ ~HasContractKey(r) THEN "except" ELSE "log_position"
    /\ UNCHANGED << db_pool, shadow_mode, cycles, approved_trades, positions, ideas,
                    idx, validation, risk_result, entry_price, open_positions, sweep_j,
                    current_price, decisions, history_marks,
                    risk_vars, exec_vars, pure_vars, snapshot >>

\* "if db.db_pool is not None: await log_position(idea, entry_price)"
LogPosition ==
    /\ pc = "log_position"
    /\ positions' = IF db_pool THEN log_position(positions, idea, entry_price)
                    ELSE positions
    /\ NextIdea
    /\ UNCHANGED << db_pool, shadow_mode, cycles, approved_trades, submit_calls,
                    ideas, open_positions, sweep_j, current_price, decisions,
                    history_marks, risk_vars, exec_vars, pure_vars, snapshot >>

----------------------------------------------------------------------------
(* refresh_pnl_from_broker: the mark-to-market sweep *)

\* the call update_pnl_by_id(conn, position_id, current_price, pnl) raises a
\* TypeError when the argument count is not the declared parameter count
UpdateCallRaises == update_pnl_call_args # update_pnl_by_id_params

\* pnl = round((current_price - entry_price) * 100, 2), dollars from cents
Pnl(price, entry) == price - entry

\* the body of the loop for one position once the update call goes through:
\* the pnl is stored, then the position is closed on a threshold
SweepRow(table, position_id, pnl) ==
    LET updated == update_pnl_by_id(table, position_id, pnl)
    IN  IF pnl >= take_profit THEN
            close_position_by_id(updated, position_id, pnl, TakeProfitReason)
        ELSE IF pnl <= stop_loss THEN
            close_position_by_id(updated, position_id, pnl, StopLossReason)
        ELSE updated

\* the end of one iteration of the loop over open_positions
NextPosition ==
    IF sweep_j < Len(open_positions)
      THEN sweep_j' = sweep_j + 1 /\ pc' = "sweep_fetch"
      ELSE sweep_j' = sweep_j /\ pc' = "sleep"

\* the two early returns and open_positions = await get_open_positions()
Refresh ==
    /\ pc = "refresh"
    /\ LET rows == get_open_positions(positions)
       IN  IF ~db_pool \/ rows = << >> THEN
               /\ pc' = "sleep"
               /\ UNCHANGED << open_positions, sweep_j >>
           ELSE
               /\ open_positions' = rows
               /\ sweep_j' = 1
               /\ pc' = "sweep_fetch"
    /\ UNCHANGED << db_pool, shadow_mode, cycles, approved_trades, positions,
                    submit_calls, ideas, idx, validation, risk_result, entry_price,
                    result, current_price, decisions, history_marks,
                    risk_vars, exec_vars, pure_vars, snapshot >>

\* current_price = await ... get_option_mid_price(symbol, pos["strategy"])
SweepFetch ==
    /\ pc = "sweep_fetch"
    /\ \E quote \in CycleQuotes : current_price' = get_option_mid_price(quote)
    /\ pc' = "sweep_update"
    /\ UNCHANGED << db_pool, shadow_mode, cycles, approved_trades, positions,
                    submit_calls, ideas, idx, validation, risk_result, entry_price,
                    result, open_positions, sweep_j, decisions, history_marks,
                    risk_vars, exec_vars, pure_vars, snapshot >>

\* a test that lets a price of 0.0 through
NoUsablePrice_Negative(price) == price < 0

\* "if current_price <= 0: continue"
NoUsablePrice(price) == price <= 0

\* the rest of the iteration: skip on no price, else update and maybe close
SweepUpdate ==
    /\ pc = "sweep_update"
    /\ LET position_id == open_positions[sweep_j]
           pnl == Pnl(current_price, positions[position_id].entry_price)
       IN  IF NoUsablePrice(current_price) THEN
               /\ positions' = positions
               /\ NextPosition
           ELSE IF UpdateCallRaises THEN
               /\ positions' = positions
               /\ sweep_j' = sweep_j
               /\ pc' = "except"
           ELSE
               /\ positions' = SweepRow(positions, position_id, pnl)
               /\ NextPosition
    /\ UNCHANGED << db_pool, shadow_mode, cycles, approved_trades, submit_calls,
                    ideas, idx, validation, risk_result, entry_price, result,
                    open_positions, current_price, decisions, history_marks,
                    risk_vars, exec_vars, pure_vars, snapshot >>

----------------------------------------------------------------------------
(* main_loop *)

\* a loop without the except clause: the exception ends the task
CycleError_Reraise ==
    /\ pc = "except"
    /\ pc' = "terminated"
    /\ UNCHANGED << db_pool, shadow_mode, cycles, approved_trades, positions,
                    submit_calls, ideas, idx, validation, risk_result, entry_price,
                    result, open_positions, sweep_j, current_price, decisions,
                    history_marks, risk_vars, exec_vars, pure_vars, snapshot >>

\* "except Exception as e: print(...)"
CycleError ==
    /\ pc = "except"
    /\ pc' = "sleep"
    /\ UNCHANGED << db_pool, shadow_mode, cycles, approved_trades, positions,
                    submit_calls, ideas, idx, validation, risk_result, entry_price,
                    result, open_positions, sweep_j, current_price, decisions,
                    history_marks, risk_vars, exec_vars, pure_vars, snapshot >>

\* await asyncio.sleep(...); the locals of the finished cycle are gone
Sleep ==
    /\ pc = "sleep"
    /\ pc' = "cycle"
    /\ ideas' = << >>
    /\ idx' = 0
    /\ validation' = NoValidation
    /\ risk_result' = NoRisk
    /\ entry_price' = 0
    /\ result' = NoResult
    /\ open_positions' = << >>
    /\ sweep_j' = 0
    /\ current_price' = 0
    /\ decisions' = << >>
    /\ snapshot' = "not_fetched"
    /\ UNCHANGED << db_pool, shadow_mode, cycles, approved_trades, positions,
                    submit_calls, history_marks, risk_vars, exec_vars, pure_vars >>

Next ==
    \/ Lifespan
    \/ CycleStart
    \/ Validate
    \/ CheckRisk
    \/ LogApprovedTrade
    \/ EntryPrice
    \/ SubmitOrder
    \/ LogPosition
    \/ Refresh
    \/ SweepFetch
    \/ SweepUpdate
    \/ CycleError
    \/ Sleep

Spec == Init /\ [][Next]_vars

----------------------------------------------------------------------------
(* The same loop with a store that may fail *)

\* a statement on the pool raises (acquire, execute or fetch): inside
\* log_approved_trade, inside log_position, or in refresh_pnl_from_broker's
\* get_open_positions / acquire.  No try block encloses these awaits in
\* orchestration_cycle, so the exception leaves the cycle.
StoreRaises ==
    /\ db_pool
    /\ pc \in { "log_approved_trade", "log_position", "refresh" }
    /\ pc' = "except"
    /\ UNCHANGED << db_pool, shadow_mode, cycles, approved_trades, positions,
                    submit_calls, ideas, idx, validation, risk_result, entry_price,
                    result, open_positions, sweep_j, current_price, decisions,
                    history_marks, risk_vars, exec_vars, pure_vars, snapshot >>

NextStore ==
    \/ Next
    \/ StoreRaises

\* every awaited call returns or raises, so the task always takes its next step
SpecStore == Init /\ [][NextStore]_vars /\ WF_vars(NextStore)

----------------------------------------------------------------------------
(* check_risk on its own: one evaluation per behaviour, over a range of     *)
(* portfolios                                                              *)

AAPLOption == AAPL \o << "2", "5", "C" >>
TSLAOption == TSLA \o << "2", "5", "P" >>

\* portfolios built from: a losing long AAPL option, a short AAPL option
\* (negative market value), AAPL stock, a losing SPY option, and unrelated
\* TSLA options
RiskPositions(nA, nB, nC, nS, nF) ==
    Rep(BrokerPosition(AAPLOption, -300, 1000), nA)
    \o Rep(BrokerPosition(AAPLOption, 0, -900), nB)
    \o Rep(BrokerPosition(AAPL, 0, 100), nC)
    \o Rep(BrokerPosition(SPYOption, -200, 500), nS)
    \o Rep(BrokerPosition(TSLAOption, 0, 10), nF)

RiskPortfolios ==
    { Portfolio(TRUE, TRUE, equity, bp, RiskPositions(nA, nB, nC, nS, nF)) :
        equity \in { 10000, 4000, 0, -10000 }, bp \in { 1999, 2000 },
        nA \in 0..2, nB \in 0..1, nC \in 0..2, nS \in 0..2, nF \in 0..MaxFill }

\* a portfolio fetch that fails: get_account raises, get_all_positions raises,
\* or a position comes back without a numeric unrealized_pl
RiskFailures ==
    { Portfolio(FALSE, TRUE, 10000, 5000, << >>),
      Portfolio(TRUE, FALSE, 10000, 5000, << >>),
      Portfolio(FALSE, FALSE, 0, 0, << >>),
      Portfolio(TRUE, TRUE, 10000, 5000,
                << [ BrokerPosition(SPYOption, 0, 100) EXCEPT !.pl_ok = FALSE ] >>),
      Portfolio(TRUE, TRUE, 10000, 5000,
                << BrokerPosition(AAPLOption, -300, 1000),
                   [ BrokerPosition(SPYOption, 0, 100) EXCEPT !.pl_ok = FALSE ] >>) }

InitRisk ==
    /\ db_pool = FALSE
    /\ shadow_mode = FALSE
    /\ pc = "risk"
    /\ cycles = 0
    /\ approved_trades = << >>
    /\ positions = << >>
    /\ submit_calls = 0
    /\ ideas = << >>
    /\ idx = 0
    /\ validation = NoValidation
    /\ risk_result = NoRisk
    /\ entry_price = 0
    /\ result = NoResult
    /\ open_positions = << >>
    /\ sweep_j = 0
    /\ current_price = 0
    /\ decisions = << >>
    /\ trades_at_start = 0
    /\ positions_at_start = Len(positions)
    /\ risk_in \in [ underlying : { AAPL, SPY }, broker : RiskPortfolios \cup RiskFailures ]
    /\ risk_out = NoRisk
    /\ snapshot = "not_fetched"
    /\ exec_in = NoExecIn
    /\ exec_out = NoExecOut
    /\ quant_in = NoQuantIn
    /\ quant_out = NoValidation
    /\ strategist_in = NoStrategistIn
    /\ strategist_out = << >>

\* risk_result = guardian.check_risk(idea) for the drawn idea and portfolio
RiskCheck ==
    /\ pc = "risk"
    /\ risk_out' = check_risk([ underlying |-> risk_in.underlying ], risk_in.broker)
    /\ pc' = "risk_done"
    /\ UNCHANGED << db_pool, shadow_mode, cycles, approved_trades, positions,
                    submit_calls, ideas, idx, validation, risk_result, entry_price,
                    result, open_positions, sweep_j, current_price, decisions,
                    history_marks, risk_in, exec_vars, pure_vars, snapshot >>

NextRisk == RiskCheck

SpecRisk == InitRisk /\ [][NextRisk]_vars

----------------------------------------------------------------------------
(* submit_option_order on its own: one call per behaviour, over a range of  *)
(* chains and broker answers                                               *)

\* a chain whose contracts nearest to the iron condor targets have no close
\* price (0 stands for a close_price of None or 0)
UnpricedChain ==
    << Contract("put", 95, 0), Contract("put", 92, 120), Contract("put", 97, 180),
       Contract("call", 105, 0), Contract("call", 108, 100), Contract("call", 112, 50),
       Contract("call", 100, 0) >>

\* a far-term chain that lists no call at 100
FarChain == << Contract("call", 105, 220), Contract("put", 100, 90) >>

\* a chain whose strikes lie at equal distances on both sides of each of the
\* four targets of an iron condor at spot 100 (92, 95, 105, 108)
TieChain ==
    << Contract("put", 93, 110), Contract("put", 91, 90), Contract("put", 94, 140),
       Contract("put", 96, 170), Contract("call", 106, 180), Contract("call", 104, 240),
       Contract("call", 107, 130), Contract("call", 109, 90) >>

\* a chain with one put and one call strike near the money and one far away
SparseChain ==
    << Contract("put", 97, 180), Contract("put", 60, 5), Contract("call", 140, 5),
       Contract("call", 103, 300) >>

\* what get_chain, get_spot_price and submit_order may answer during one call
ExecInputs ==
    [ raises      : BOOLEAN,
      chain       : { << >>, FullChain, CallsOnly, UnpricedChain, TieChain, SparseChain },
      near_chain  : { << >>, CallsOnly, UnpricedChain },
      far_chain   : { << >>, CallsOnly, FarChain },
      spot        : { 0, 100 },
      accepted    : 0..4,
      fb_raises   : BOOLEAN,
      fb_chain    : { << >>, CallsOnly, << Contract("call", 100, 0) >> },
      fb_accepted : BOOLEAN ]

InitExec ==
    /\ db_pool = FALSE
    /\ shadow_mode = FALSE
    /\ pc = "exec"
    /\ cycles = 0
    /\ approved_trades = << >>
    /\ positions = << >>
    /\ submit_calls = 0
    /\ ideas = << >>
    /\ idx = 0
    /\ validation = NoValidation
    /\ risk_result = NoRisk
    /\ entry_price = 0
    /\ result = NoResult
    /\ open_positions = << >>
    /\ sweep_j = 0
    /\ current_price = 0
    /\ decisions = << >>
    /\ trades_at_start = 0
    /\ positions_at_start = Len(positions)
    /\ risk_in = NoRiskIn
    /\ risk_out = NoRisk
    /\ snapshot = "not_fetched"
    /\ exec_in \in [ strategy : Range(Strategies), ex : ExecInputs ]
    /\ exec_out = NoExecOut
    /\ quant_in = NoQuantIn
    /\ quant_out = NoValidation
    /\ strategist_in = NoStrategistIn
    /\ strategist_out = << >>

\* result = submit_option_order(idea["underlying"], idea["strategy"]) for the
\* drawn strategy and answers
ExecSubmit ==
    /\ pc = "exec"
    /\ exec_out' = submit_option_order(exec_in.strategy, exec_in.ex)
    /\ pc' = "exec_done"
    /\ UNCHANGED << db_pool, shadow_mode, cycles, approved_trades, positions,
                    submit_calls, ideas, idx, validation, risk_result, entry_price,
                    result, open_positions, sweep_j, current_price, decisions,
                    history_marks, risk_vars, snapshot, exec_in, pure_vars >>

NextExec == ExecSubmit

SpecExec == InitExec /\ [][NextExec]_vars

----------------------------------------------------------------------------
(* QuantAgent.validate on its own: one call per behaviour, over a range of  *)
(* answers of the two data sources                                          *)

\* the loop task and the tables at rest, for the specifications of one call
IdleCycle ==
    /\ db_pool = FALSE
    /\ shadow_mode = FALSE
    /\ cycles = 0
    /\ approved_trades = << >>
    /\ positions = << >>
    /\ submit_calls = 0
    /\ ideas = << >>
    /\ idx = 0
    /\ validation = NoValidation
    /\ risk_result = NoRisk
    /\ entry_price = 0
    /\ result = NoResult
    /\ open_positions = << >>
    /\ sweep_j = 0
    /\ current_price = 0
    /\ decisions = << >>
    /\ trades_at_start = 0
    /\ positions_at_start = 0
    /\ risk_in = NoRiskIn
    /\ risk_out = NoRisk
    /\ snapshot = "not_fetched"
    /\ exec_in = NoExecIn
    /\ exec_out = NoExecOut

\* chains get_option_contracts can answer with: close prices in hundredths,
\* with means of 0.20, 0.30, 5.00, 5.50 and 6.00 among them
QuantChains ==
    { << >>, << NoPrice >>, << NoPrice, NoPrice >>, << 20 >>, << NoPrice, 30 >>,
      << 520, 480 >>, << 900, 200 >>, << 600 >> }

\* calls frames option_chain can answer with
QuantCalls ==
    { << >>,
      << [ volume |-> 5, iv |-> 30 ] >>,
      << [ volume |-> 100, iv |-> 30 ] >>,
      << [ volume |-> 40, iv |-> 600 ], [ volume |-> 0, iv |-> 0 ] >> }

QuantInputs ==
    [ alpaca : [ raises : BOOLEAN, chain : QuantChains ],
      yf     : [ raises : BOOLEAN, has_dates : BOOLEAN, calls : QuantCalls ] ]

InitQuant ==
    /\ IdleCycle
    /\ pc = "quant"
    /\ quant_in \in QuantInputs
    /\ quant_out = NoValidation
    /\ strategist_in = NoStrategistIn
    /\ strategist_out = << >>

\* validation = quant.validate(idea) for the drawn answers
QuantValidate ==
    /\ pc = "quant"
    /\ quant_out' = validate(quant_in.alpaca, quant_in.yf)
    /\ pc' = "quant_done"
    /\ UNCHANGED << db_pool, shadow_mode, cycles, approved_trades, positions,
                    submit_calls, ideas, idx, validation, risk_result, entry_price,
                    result, open_positions, sweep_j, current_price, decisions,
                    history_marks, risk_vars, exec_vars, snapshot, quant_in,
                    strategist_in, strategist_out >>

NextQuant == QuantValidate

SpecQuant == InitQuant /\ [][NextQuant]_vars

----------------------------------------------------------------------------
(* StrategistAgent.generate_ideas on its own: one call per behaviour, over  *)
(* the snapshots the function accepts                                       *)

\* snapshots: every combination of field values on both sides of each
\* threshold score_strategy tests
Snapshots ==
    [ none     : { FALSE },
      iv_rank  : { 20, 34, 35, 65, 66, 80 },
      skew     : { "flat", "steep_put", "steep_call" },
      vix      : { 15, 21, 22, 25, 26, 30 },
      momentum : { "bullish", "bearish", "neutral" },
      regime   : { "high_vol", "low_vol" } ]

\* draws of random.choice for the three candidates
StrategistPicks ==
    CyclePicks \cup { << underlyings[3], underlyings[3], underlyings[4] >> }

InitStrategist ==
    /\ IdleCycle
    /\ pc = "strategist"
    /\ quant_in = NoQuantIn
    /\ quant_out = NoValidation
    /\ strategist_in \in [ ms : Snapshots, pick : StrategistPicks ]
    /\ strategist_out = << >>

\* ideas = strategist.generate_ideas(market_state) for the drawn snapshot
StrategistGenerate ==
    /\ pc = "strategist"
    /\ strategist_out' = generate_ideas(strategist_in.ms, strategist_in.pick)
    /\ pc' = "strategist_done"
    /\ UNCHANGED << db_pool, shadow_mode, cycles, approved_trades, positions,
                    submit_calls, ideas, idx, validation, risk_result, entry_price,
                    result, open_positions, sweep_j, current_price, decisions,
                    history_marks, risk_vars, exec_vars, snapshot, quant_in,
                    quant_out, strategist_in >>

NextStrategist == StrategistGenerate

SpecStrategist == InitStrategist /\ [][NextStrategist]_vars

----------------------------------------------------------------------------
(* Properties of the position ledger and of the cycle (specification Spec) *)

\* the row the sweep is working on, and the pnl it computes for it
SweepId == open_positions[sweep_j]
SweepPnl == Pnl(current_price, positions[SweepId].entry_price)

\* C1: during a sweep, an open position whose fetched price is > 0 and whose
\* pnl = (currentPrice - entryPrice) * 100 is >= 200 is closed with the
\* take-profit reason and that pnl; one whose pnl is <= -150 is closed with
\* the stop-loss reason and that pnl.
C1_AutoClose ==
    [][ (pc = "sweep_update" /\ current_price > 0) =>
          /\ SweepPnl >= 200 =>
                /\ positions'[SweepId].status = "closed"
                /\ positions'[SweepId].close_reason = TakeProfitReason
                /\ positions'[SweepId].unrealized_pnl = SweepPnl
          /\ SweepPnl <= -150 =>
                /\ positions'[SweepId].status = "closed"
                /\ positions'[SweepId].close_reason = StopLossReason
                /\ positions'[SweepId].unrealized_pnl = SweepPnl ]_vars

\* the scenario of C1: entry 2.00, fetched 4.00, the sweep about to update
C1_Scenario ==
    /\ pc = "sweep_update"
    /\ positions[SweepId].entry_price = 200
    /\ current_price = 400

\* C2: a closed position never becomes open again, no step changes its
\* status, unrealizedPnl or closeReason, and the rows a sweep holds and works
\* on are open ones.
C2_ClosedIsFinal ==
    /\ [][ \A id \in 1..Len(positions) :
             positions[id].status = "closed" =>
               /\ id <= Len(positions')
               /\ positions'[id].status = "closed"
               /\ positions'[id].unrealized_pnl = positions[id].unrealized_pnl
               /\ positions'[id].close_reason = positions[id].close_reason ]_vars
    /\ [](pc \in { "sweep_fetch", "sweep_update" } =>
             \A k \in 1..Len(open_positions) :
                positions[open_positions[k]].status = "open")

\* a sweep at work on a ledger that holds a closed position
C2_SweepBesideClosed ==
    /\ pc = "sweep_update"
    /\ current_price > 0
    /\ \E id \in 1..Len(positions) : positions[id].status = "closed"

\* C4: in non-shadow mode, when submit_option_order returned success = false
\* (multi-leg path and fallback both failed), no Position row is inserted for
\* the idea.
C4_NoPositionWithoutExecution ==
    [][ (pc = "log_position" /\ ~shadow_mode /\ ~result.success) =>
          positions' = positions ]_vars

\* the row log_position writes for the current idea
NewPosition == Head(log_position(<< >>, idea, entry_price))

\* C5: in non-shadow mode, when submit_option_order reports success, whatever
\* the path, the cycle goes on to persist a new open Position for the idea and
\* then to the next idea or, after the last one, to the sweep.
C5_SuccessPersistsPosition ==
    /\ [][ (pc = "submit" /\ pc' # "submit" /\ result'.success) =>
             pc' = "log_position" ]_vars
    /\ [][ (pc = "log_position" /\ ~shadow_mode /\ result.success) =>
             /\ positions' = Append(positions, NewPosition)
             /\ NewPosition.status = "open"
             /\ pc' = IF idx < Len(ideas) THEN "validate" ELSE "refresh" ]_vars

\* C4 and C5 at work: a failed submission about to be followed by
\* log_position, and a successful multi-leg submission
C4_Scenario == pc = "log_position" /\ ~shadow_mode /\ ~result.success
C5_Scenario == pc = "except" /\ result.success /\ result.kind = "calendar_spread"

\* the cycle is between its first statement and its return or exception
InCycle == pc \notin { "lifespan", "cycle", "risk", "risk_done", "exec", "exec_done",
                       "quant", "quant_done", "strategist", "strategist_done" }

\* rows written since the current cycle started
NewTrades == SubSeq(approved_trades, trades_at_start + 1, Len(approved_trades))
NewPositions == SubSeq(positions, positions_at_start + 1, Len(positions))

AllButLast(s) == SubSeq(s, 1, Len(s) - 1)

\* the verdicts of the current cycle on validated ideas, and those whose audit
\* row is due (the last one is not while its log_approved_trade is pending)
ValidDecisions == SelectSeq(decisions, LAMBDA d : d.valid)
AuditDue ==
    IF pc = "log_approved_trade" THEN AllButLast(ValidDecisions) ELSE ValidDecisions

\* the approvals of the current cycle, and those whose position row is due
Approvals == SelectSeq(decisions, LAMBDA d : d.valid /\ d.approved)
PositionDue ==
    IF pc \in { "log_approved_trade", "entry_price", "submit", "log_position" }
         /\ Approvals # << >> /\ Approvals[Len(Approvals)] = decisions[Len(decisions)]
      THEN AllButLast(Approvals) ELSE Approvals

SameIdea(row, d) == row.strategy = d.strategy /\ row.underlying = d.underlying

\* C6: in shadow mode no cycle calls the brokerage's submit_order (the count
\* of calls stays 0 in every reachable state), while every approved idea still
\* gets its audit row (approved = true) and its new open Position.
C6_ShadowMode ==
    shadow_mode =>
      /\ submit_calls = 0
      /\ InCycle =>
           LET audited == SelectSeq(NewTrades, LAMBDA row : row.approved)
               due     == SelectSeq(AuditDue, LAMBDA d : d.approved)
           IN  /\ Len(audited) = Len(due)
               /\ \A k \in 1..Len(due) : SameIdea(audited[k], due[k])
               /\ Len(NewPositions) = Len(PositionDue)
               /\ \A k \in 1..Len(PositionDue) :
                     /\ SameIdea(NewPositions[k], PositionDue[k])
                     /\ NewPositions[k].status = "open"

\* shadow mode with an approved idea fully processed
C6_ShadowApproved ==
    /\ shadow_mode
    /\ pc = "refresh"
    /\ Approvals # << >>
    /\ Len(NewPositions) = Len(Approvals)

\* C9: every idea that passes validation gets exactly one approved_trades row
\* in its cycle, approved or not, with approved equal to the risk decision;
\* the row is there before any order for the idea is submitted; rows are never
\* changed or removed.
C9_AuditTrail ==
    /\ [](InCycle =>
            /\ Len(NewTrades) = Len(AuditDue)
            /\ \A k \in 1..Len(AuditDue) :
                  /\ SameIdea(NewTrades[k], AuditDue[k])
                  /\ NewTrades[k].approved = AuditDue[k].approved)
    /\ [][ /\ Len(approved_trades') >= Len(approved_trades)
           /\ SubSeq(approved_trades', 1, Len(approved_trades)) = approved_trades
           /\ submit_calls' > submit_calls =>
                /\ NewTrades # << >>
                /\ SameIdea(NewTrades[Len(NewTrades)], idea) ]_vars

\* a cycle that has audited a rejected and an approved idea and submitted an order
C9_BothVerdictsAudited ==
    /\ InCycle
    /\ Len(NewTrades) = 2
    /\ ~NewTrades[1].approved
    /\ NewTrades[2].approved
    /\ submit_calls > 0

\* the verdicts of the current cycle that are final: all but the one whose
\* audit row is still pending
FinalDecisions ==
    IF pc = "log_approved_trade" THEN AllButLast(decisions) ELSE decisions

\* C10: every idea the validator rejected and every idea the risk gate
\* rejected has a row in the audit trail that carries its reject reason.
C10_RejectionsAudited ==
    InCycle =>
      \A k \in 1..Len(FinalDecisions) :
         LET d == FinalDecisions[k]
         IN  (~d.valid \/ ~d.approved) =>
               \E j \in 1..Len(NewTrades) :
                  /\ SameIdea(NewTrades[j], d)
                  /\ ~NewTrades[j].approved
                  /\ RejectReasonOf(NewTrades[j]) = d.reason

\* a risk rejection whose audit row has been written
C10_Scenario ==
    /\ InCycle
    /\ pc # "log_approved_trade"
    /\ \E k \in 1..Len(decisions) : decisions[k].valid /\ ~decisions[k].approved

----------------------------------------------------------------------------
(* Properties of check_risk (specification SpecRisk) *)

RiskEquity == risk_in.broker.equity
RiskPl == TotalUnrealized(risk_in.broker.positions)
RiskCount == Len(risk_in.broker.positions)
RiskExposure == Exposure(risk_in.broker.positions, risk_in.underlying)

\* the portfolio could not be fetched or read
FetchFailed ==
    \/ ~risk_in.broker.account_ok
    \/ ~risk_in.broker.positions_ok
    \/ \E k \in 1..RiskCount : ~risk_in.broker.positions[k].pl_ok

\* C3: when fetching the account or the positions raises, or a step of
\* check_risk raises, the result is a returned verdict with approved = false
\* and a 'Risk check error' reason; a failed fetch never yields approved = true.
C3_FailClosed ==
    (pc = "risk_done" /\ FetchFailed) =>
       /\ risk_out.approved = FALSE
       /\ risk_out.reason.msg = "Risk check error"
       /\ risk_out.risk_score = NoScore

\* a failed get_account on an account that would otherwise pass every check
C3_FetchFailedSeen ==
    /\ pc = "risk_done"
    /\ ~risk_in.broker.account_ok
    /\ risk_in.broker.equity = 10000
    /\ ~risk_out.approved

\* the four checks as the claim states them; the drawdown percentage is
\* pl / equity * 100 and counts as 0, like the concentration, when equity <= 0
DrawdownFails == RiskEquity > 0 /\ RiskPl * 100 < -5 * RiskEquity
CountFails == RiskCount >= 10
ConcentrationFails == RiskEquity > 0 /\ RiskExposure * 100 > 20 * RiskEquity
BuyingPowerFails == risk_in.broker.buying_power < 2 * 1000

FirstFailure ==
    IF DrawdownFails THEN "Drawdown limit exceeded"
    ELSE IF CountFails THEN "Max 10 open positions reached"
    ELSE IF ConcentrationFails THEN "Concentration limit exceeded"
    ELSE IF BuyingPowerFails THEN "Insufficient buying power"
    ELSE ""

\* C7: the checks run in the order drawdown, position count, concentration,
\* buying power; the reason is the first failing check's; the idea is approved
\* exactly when none fails, with riskScore = |drawdownPct| / 5; equity 10000
\* with unrealized pnl -600 is rejected with 'Drawdown limit exceeded
\* (-6.00%)' whatever else holds.
C7_ChecksInOrder ==
    (pc = "risk_done" /\ ~FetchFailed) =>
       /\ risk_out.approved = (FirstFailure = "")
       /\ ~risk_out.approved => risk_out.reason.msg = FirstFailure
       /\ risk_out.approved =>
             risk_out.risk_score =
                IF RiskEquity > 0
                  THEN RoundDiv(Abs(RiskPl) * 100 * 1000, 5 * RiskEquity) ELSE 0
       /\ (RiskEquity = 10000 /\ RiskPl = -600) =>
             /\ ~risk_out.approved
             /\ risk_out.reason.msg = "Drawdown limit exceeded"
             /\ risk_out.reason.pct = -600

\* the drawdown scenario with a second check failing as well
C7_DrawdownFirst ==
    /\ pc = "risk_done"
    /\ RiskEquity = 10000
    /\ RiskPl = -600
    /\ CountFails
    /\ risk_out.reason.msg = "Drawdown limit exceeded"

\* C8: with the drawdown, count and buying-power checks passing, the idea is
\* rejected when exposure / equity > 0.20 and approved when it is <= 0.20;
\* with equity 10000, exposure 2100 is rejected, 1900 and 2000 are approved.
C8_ConcentrationBoundary ==
    ( /\ pc = "risk_done"
      /\ ~FetchFailed
      /\ RiskEquity > 0
      /\ ~DrawdownFails /\ ~CountFails /\ ~BuyingPowerFails ) =>
       /\ risk_out.approved = (RiskExposure * 100 <= 20 * RiskEquity)
       /\ ~risk_out.approved =>
             /\ risk_out.reason.msg = "Concentration limit exceeded"
             /\ risk_out.reason.underlying = risk_in.underlying
       /\ RiskEquity = 10000 =>
             /\ RiskExposure = 2100 => ~risk_out.approved
             /\ RiskExposure \in { 1900, 2000 } => risk_out.approved

\* exposure exactly at the limit, approved
C8_AtLimit ==
    /\ pc = "risk_done"
    /\ RiskEquity = 10000
    /\ RiskExposure = 2000
    /\ risk_in.underlying = AAPL
    /\ risk_out.approved

----------------------------------------------------------------------------
(* Properties of the loop with a failing store (specification SpecStore) *)

\* C11: the loop is at the call of orchestration_cycle again and again: a
\* cycle that is running, or that has raised and is in the except clause,
\* always leads back there; every cycle the exploration allows does start;
\* the loop task never terminates.
C11_LoopGoesOn ==
    /\ []<>(pc = "cycle")
    /\ <>(cycles = MaxCycles)
    /\ [](pc # "terminated")

\* a cycle has raised (the KeyError after a multi-leg success) and the loop
\* is sleeping before the next one
C11_SleepAfterError == pc = "sleep" /\ result.success /\ result.kind = "iron_condor"

\* C12: when log_approved_trade fails for an idea the cycle goes on with that
\* idea (entry pricing if approved, else the next idea or the sweep), and
\* when log_position fails it goes on with the next idea or the sweep.
C12_PersistenceFailureIsolated ==
    [][ /\ (pc = "log_approved_trade" /\ db_pool /\ approved_trades' = approved_trades) =>
             pc' = IF risk_result.approved THEN "entry_price"
                   ELSE IF idx < Len(ideas) THEN "validate" ELSE "refresh"
        /\ (pc = "log_position" /\ db_pool /\ positions' = positions) =>
             pc' = IF idx < Len(ideas) THEN "validate" ELSE "refresh" ]_vars

\* the audit insert of an approved idea has failed and the cycle is in the
\* except clause of the loop
C12_Scenario ==
    /\ pc = "except"
    /\ risk_result.approved
    /\ result = NoResult
    /\ Len(NewTrades) < Len(ValidDecisions)

----------------------------------------------------------------------------
(* Properties of submit_option_order (specification SpecExec) *)

ExecDone == pc = "exec_done"

\* the labels of the legs of the two multi-leg strategies
MultiLegLabels == { "short_put", "long_put", "short_call", "long_call",
                    "short_near_call", "long_far_call" }

\* the legs of the result that belong to a multi-leg strategy
MultiLegs(res) == SelectSeq(res.legs, LAMBDA leg : leg.label \in MultiLegLabels)

\* the chain lists a contract of the type with a strike and a positive close price
HasPriced(chain, type) ==
    \E k \in 1..Len(chain) : chain[k].type = type /\ chain[k].close > 0

\* C13: iron_condor and calendar_spread are routed to their multi-leg
\* executors; when the routed path reports failure, and for a strategy with
\* no multi-leg executor, submit_single_leg_fallback runs once (at most one
\* more submit_order call) and its result is returned; after a multi-leg
\* success the fallback does not run.
C13_FallbackRouting ==
    ExecDone =>
      LET ex == exec_in.ex
          fb == submit_single_leg_fallback(ex)
          ic == submit_iron_condor(ex)
          cs == submit_calendar_spread(ex)
          multi_ok == \/ exec_in.strategy = "iron_condor" /\ ic.success
                      \/ exec_in.strategy = "calendar_spread" /\ cs.success
      IN  /\ exec_out.fallback = ~multi_ok
          /\ multi_ok =>
               /\ exec_out.success
               /\ exec_out.kind = exec_in.strategy
               /\ exec_out.legs = (IF exec_in.strategy = "iron_condor" THEN ic ELSE cs).legs
               /\ \A k \in 1..Len(exec_out.legs) : exec_out.legs[k].label # "fallback"
          /\ ~multi_ok =>
               /\ exec_out.success = fb.success
               /\ exec_out.kind = "single_leg_fallback"
               /\ exec_out.reason = fb.reason
               /\ Len(SelectSeq(exec_out.legs, LAMBDA leg : leg.label = "fallback")) <= 1
               /\ exec_out.calls - Len(MultiLegs(exec_out)) <= 2
          /\ exec_in.strategy = "straddle" => exec_out.fallback /\ exec_out.calls <= 1

\* an iron condor whose second leg the broker rejects, rescued by the fallback
C13_FallbackAfterFailure ==
    /\ ExecDone
    /\ exec_in.strategy = "iron_condor"
    /\ Len(MultiLegs(exec_out)) = 1
    /\ exec_out.fallback
    /\ exec_out.success

\* the resolution of the routed strategy cannot succeed: no chain, no spot
\* price, or a leg with no priced contract of its type
ResolutionFails ==
    LET ex == exec_in.ex
    IN  \/ ex.spot <= 0
        \/ /\ exec_in.strategy = "iron_condor"
           /\ \/ ex.chain = << >>
              \/ ~HasPriced(ex.chain, "put")
              \/ ~HasPriced(ex.chain, "call")
        \/ /\ exec_in.strategy = "calendar_spread"
           /\ \/ ex.near_chain = << >> \/ ex.far_chain = << >>
              \/ ~HasPriced(ex.near_chain, "call")
              \/ ~HasPriced(ex.far_chain, "call")

\* C14: when the chain is empty, the spot price is unavailable or a leg
\* cannot be resolved, no order of the multi-leg strategy is submitted (the
\* only submit_order call, if any, is the fallback's) and the fallback runs.
C14_NoPartialLegs ==
    ( /\ ExecDone
      /\ exec_in.strategy \in { "iron_condor", "calendar_spread" }
      /\ ResolutionFails ) =>
       /\ MultiLegs(exec_out) = << >>
       /\ \A k \in 1..Len(exec_out.legs) : exec_out.legs[k].label = "fallback"
       /\ exec_out.calls <= 1
       /\ exec_out.fallback

\* an iron condor on a chain without puts, with a broker that would accept
\* every leg: only the fallback's order is placed
C14_CallsOnlySeen ==
    /\ ExecDone
    /\ exec_in.strategy = "iron_condor"
    /\ exec_in.ex.chain = CallsOnly
    /\ ~exec_in.ex.raises
    /\ exec_in.ex.spot = 100
    /\ exec_in.ex.accepted = 4
    /\ exec_out.calls = 1
    /\ exec_out.success

\* C15: whenever submit_calendar_spread has submitted its two legs, the sold
\* near-term call and the bought far-term call have the same strike.
C15_CalendarSameStrike ==
    ( /\ ExecDone
      /\ exec_in.strategy = "calendar_spread"
      /\ Len(MultiLegs(exec_out)) = 2 ) =>
       MultiLegs(exec_out)[1].strike = MultiLegs(exec_out)[2].strike

\* both legs of a calendar spread submitted
C15_Scenario ==
    /\ ExecDone
    /\ exec_in.strategy = "calendar_spread"
    /\ Len(MultiLegs(exec_out)) = 2
    /\ ~exec_out.fallback

\* targets of the strike search, in hundredths of a dollar
StrikeTargets == { 9200, 9500, 10000, 10300, 10500, 10800 }

\* C16: find_strike returns a contract of the requested type with a positive
\* close price whose strike is nearest to the target among all such
\* contracts of the chain, and none only when the chain has no such
\* contract; with spot 100 and puts {92,95,97,103}, calls {103,105,108,112}
\* the iron condor's legs are 95, 92, 105, 108.
C16_StrikeSelection ==
    ExecDone =>
      /\ \A type \in { "put", "call" }, target \in StrikeTargets :
            LET chain == exec_in.ex.chain
                c == find_strike(chain, type, target)
                eligible == { k \in 1..Len(chain) :
                                 chain[k].type = type /\ chain[k].close > 0 }
            IN  /\ (c = NoContract) = (eligible = { })
                /\ eligible # { } =>
                     /\ \E k \in eligible : chain[k] = c
                     /\ \A m \in eligible :
                           Abs(c.strike * 100 - target) <= Abs(chain[m].strike * 100 - target)
      /\ ( /\ exec_in.strategy = "iron_condor"
           /\ exec_in.ex.chain = FullChain
           /\ exec_in.ex.spot = 100
           /\ ~exec_in.ex.raises
           /\ exec_in.ex.accepted = 4 ) =>
            [ k \in 1..Len(exec_out.legs) |-> exec_out.legs[k].strike ]
               = << 95, 92, 105, 108 >>

\* the iron condor of the example, all four legs placed
C16_ExampleResolved ==
    /\ ExecDone
    /\ exec_in.strategy = "iron_condor"
    /\ exec_in.ex.chain = FullChain
    /\ exec_in.ex.spot = 100
    /\ exec_out.success
    /\ ~exec_out.fallback
    /\ Len(exec_out.legs) = 4

----------------------------------------------------------------------------
(* Properties of the sweep and of the start of a cycle (specification Spec) *)

\* C17: for an open position with a fetched price > 0 and a pnl strictly
\* between -150 and 200, the sweep stores the fetched price as current_price
\* and the pnl as unrealized_pnl and leaves the position open.
C17_MarkToMarket ==
    [][ ( /\ pc = "sweep_update"
          /\ current_price > 0
          /\ SweepPnl > -150 /\ SweepPnl < 200 ) =>
          /\ positions'[SweepId].current_price = current_price
          /\ positions'[SweepId].unrealized_pnl = SweepPnl
          /\ positions'[SweepId].status = "open" ]_vars

\* a position entered at 2.00 with a fetched price of 2.00
C17_Scenario ==
    /\ pc = "sweep_update"
    /\ positions[SweepId].entry_price = 200
    /\ current_price = 200

\* C18: when the fetched price is <= 0 the sweep leaves the position (and
\* every other row) unchanged, does not raise, and goes on with the next
\* open position, or ends when there is none.
C18_SkipUnfetchable ==
    [][ (pc = "sweep_update" /\ current_price <= 0) =>
          /\ positions' = positions
          /\ pc' # "except"
          /\ IF sweep_j < Len(open_positions)
               THEN pc' = "sweep_fetch" /\ sweep_j' = sweep_j + 1
               ELSE pc' = "sleep" ]_vars

\* the first of two open positions had no price and the sweep is at the second
C18_SkippedToNext ==
    /\ pc = "sweep_fetch"
    /\ sweep_j = 2
    /\ current_price = 0
    /\ positions[open_positions[1]].status = "open"

\* C19: a cycle that obtained a market snapshot and did not raise ends
\* through the sweep: it reaches the sleep of the loop only from
\* refresh_pnl_from_broker, also when no idea was generated.
C19_SweepEveryCycle ==
    [][ ( /\ pc' = "sleep"
          /\ pc \notin { "sleep", "except" }
          /\ snapshot' = "obtained" ) =>
          pc \in { "refresh", "sweep_update" } ]_vars

\* a cycle with a snapshot and no idea has ended
C19_Scenario ==
    /\ pc = "sleep"
    /\ snapshot = "obtained"
    /\ ideas = << >>
    /\ decisions = << >>

\* C20: when get_market_state returns None, generate_ideas gives the empty
\* list for it, the cycle ends at once without raising, no audit row, order
\* or position is added, and the loop goes on to its sleep and the next call.
C20_MissingSnapshot ==
    /\ [][ (pc = "cycle" /\ snapshot' = "unavailable") =>
             /\ pc' = "sleep"
             /\ ideas' = << >>
             /\ approved_trades' = approved_trades
             /\ positions' = positions
             /\ submit_calls' = submit_calls ]_vars
    /\ [](snapshot = "unavailable" =>
             /\ pc = "sleep"
             /\ Len(approved_trades) = trades_at_start
             /\ Len(positions) = positions_at_start
             /\ \A pick \in CyclePicks : generate_ideas(NoMarketState, pick) = << >>)
    /\ [][ (pc = "sleep" /\ snapshot = "unavailable") => pc' = "cycle" ]_vars

\* a cycle without a snapshot has ended and the loop is sleeping
C20_NoSnapshotSeen ==
    /\ pc = "sleep"
    /\ snapshot = "unavailable"
    /\ cycles = 1

----------------------------------------------------------------------------
(* Properties of QuantAgent.validate (specification SpecQuant) *)

\* mean of the listed close prices of a chain, times the number of priced
\* contracts: mean > 5.00 iff PricedSum > 500 * PricedCount
PricedCount(chain) == Len(SelectSeq(chain, LAMBDA c : c # NoPrice))
PricedSum(chain) == SumSeq(SelectSeq(chain, LAMBDA c : c # NoPrice))

\* C21: validate never raises: every call ends with a verdict; when the
\* Alpaca validation raises, the verdict is the one the yfinance validation
\* gives for what yfinance answers; when that raises as well, the verdict is
\* valid = false with the yfinance error text as reason and no score.
C21_ValidateNeverRaises ==
    pc = "quant_done" =>
        /\ quant_out # Raised
        /\ quant_out.valid \in BOOLEAN
        /\ quant_in.alpaca.raises =>
              /\ quant_in.yf.raises =>
                    /\ ~quant_out.valid
                    /\ quant_out.reason = "yfinance validation error"
                    /\ quant_out.score = NoScore
              /\ ~quant_in.yf.raises /\ ~quant_in.yf.has_dates =>
                    /\ ~quant_out.valid
                    /\ quant_out.reason = "No options data from yfinance"
              /\ ( /\ ~quant_in.yf.raises
                   /\ quant_in.yf.has_dates
                   /\ quant_in.yf.calls = << [ volume |-> 100, iv |-> 30 ] >> ) =>
                    /\ quant_out.valid
                    /\ quant_out.score = 800

C21_BothSourcesRaised ==
    /\ pc = "quant_done"
    /\ quant_in.alpaca.raises
    /\ quant_in.yf.raises
    /\ ~quant_out.valid

\* C22: the Alpaca validation, when it gets a chain, rejects a mean listed
\* implied volatility <= 0 or > 5 once the chain is known not to be empty: a
\* verdict for a non-empty chain with mean > 5 is never valid.
C22_IvSanity ==
    ( /\ pc = "quant_done"
      /\ ~quant_in.alpaca.raises
      /\ quant_in.alpaca.chain # << >> ) =>
        LET chain == quant_in.alpaca.chain
            n     == PricedCount(chain)
            total == PricedSum(chain)
        IN  /\ (n = 0 \/ total <= 0 \/ total > 500 * n) => ~quant_out.valid
            /\ (n > 0 /\ total > 0 /\ total <= 500 * n) => quant_out.valid

C22_HighIvSeen ==
    /\ pc = "quant_done"
    /\ ~quant_in.alpaca.raises
    /\ quant_in.alpaca.chain = << 600 >>
    /\ quant_out.valid
    /\ quant_out.score = 980

----------------------------------------------------------------------------
(* Properties of StrategistAgent.generate_ideas (specification             *)
(* SpecStrategist)                                                          *)

\* the ideas of one strategy among those returned
IdeasOf(strategy) == SelectSeq(strategist_out, LAMBDA i : i.strategy = strategy)

\* C23: an idea of a strategy is emitted exactly when the strategy's score is
\* above 0.30, with confidence 0.55 + 0.40 * score; so every emitted idea has
\* a confidence above 0.67 and within 0.55..0.99, and an iron condor whose
\* only matching rule is the low-volatility regime (score exactly 0.30) is
\* not emitted.
C23_EmissionThreshold ==
    pc = "strategist_done" =>
        LET ms == strategist_in.ms
        IN  /\ \A k \in 1..3 :
                  LET strategy == Strategies[k]
                      score    == score_strategy(strategy, ms)
                  IN  /\ Len(IdeasOf(strategy)) = (IF score > 30 THEN 1 ELSE 0)
                      /\ \A i \in Range(IdeasOf(strategy)) :
                            /\ i.confidence = 550 + 4 * score
                            /\ i.rationale[1] = score
              /\ \A i \in Range(strategist_out) :
                    /\ i.confidence > 670
                    /\ i.confidence >= 550
                    /\ i.confidence <= 990
              /\ ( /\ ms.regime = "low_vol"
                   /\ ~(ms.iv_rank < 35 /\ ms.skew = "flat" /\ ms.vix < 22) ) =>
                    IdeasOf("iron_condor") = << >>

C23_AtThresholdSeen ==
    /\ pc = "strategist_done"
    /\ score_strategy("iron_condor", strategist_in.ms) = 30
    /\ IdeasOf("iron_condor") = << >>
    /\ strategist_out # << >>

\* C24: for every snapshot with iv_rank > 65 and vix > 25 a straddle idea is
\* emitted, with a score of at least 0.45; when the regime is high_vol as
\* well, its score is 0.70 and its confidence at least 0.79.
C24_HighIvStraddle ==
    ( /\ pc = "strategist_done"
      /\ strategist_in.ms.iv_rank > 65
      /\ strategist_in.ms.vix > 25 ) =>
        /\ Len(IdeasOf("straddle")) = 1
        /\ \A i \in Range(IdeasOf("straddle")) :
              /\ i.rationale[1] >= 45
              /\ i.underlying = strategist_in.pick[1]
              /\ strategist_in.ms.regime = "high_vol" =>
                    /\ i.rationale[1] = 70
                    /\ i.confidence >= 790

C24_HighVolStraddleSeen ==
    /\ pc = "strategist_done"
    /\ strategist_in.ms.iv_rank = 80
    /\ strategist_in.ms.vix = 30
    /\ strategist_in.ms.regime = "high_vol"
    /\ strategist_out # << >>
    /\ strategist_out[1].strategy = "straddle"
    /\ strategist_out[1].confidence = 830

\* C28: generate_ideas returns at most two ideas; an iron condor idea is never
\* returned together with a straddle or a calendar spread idea; the ideas
\* come in the order straddle, iron condor, calendar spread.
C28_IdeaMix ==
    pc = "strategist_done" =>
        LET n == Len(strategist_out)
            rank(i) == IF i.strategy = "straddle" THEN 1
                       ELSE IF i.strategy = "iron_condor" THEN 2
                       ELSE IF i.strategy = "calendar_spread" THEN 3 ELSE 0
        IN  /\ n <= 2
            /\ IdeasOf("iron_condor") # << >> => n = 1
            /\ \A a \in 1..n : rank(strategist_out[a]) > 0
            /\ \A a, b \in 1..n :
                  a < b => rank(strategist_out[a]) < rank(strategist_out[b])

C28_TwoIdeasSeen ==
    /\ pc = "strategist_done"
    /\ Len(strategist_out) = 2
    /\ strategist_out[1].strategy = "straddle"
    /\ strategist_out[2].strategy = "calendar_spread"

----------------------------------------------------------------------------
(* Serial execution of the cycle (specification Spec) *)

\* positions of the loop task inside refresh_pnl_from_broker
SweepLabels == { "refresh", "sweep_fetch", "sweep_update" }

\* some row the table already holds is changed or removed
RowMutated ==
    \/ Len(positions') < Len(positions)
    \/ \E i \in 1..Len(positions) :
          i <= Len(positions') /\ positions'[i] # positions[i]

----------------------------------------------------------------------------
(* Order counts of submit_option_order (specification SpecExec) *)

\* the number of orders of the routed strategy the broker has accepted when
\* the call returns: none unless every leg was resolved, else as many as the
\* broker accepted before it raised
AcceptedLegs ==
    LET ex   == exec_in.ex
        legs == IF exec_in.strategy = "iron_condor" THEN 4 ELSE 2
    IN  IF exec_in.strategy \notin { "iron_condor", "calendar_spread" } THEN 0
        ELSE IF ex.raises \/ ResolutionFails THEN 0
        ELSE IF ex.accepted < legs THEN ex.accepted ELSE legs

\* C26: one submit_option_order call places at most 4 orders at the broker.
\* When a leg fails after k legs were accepted, those k orders stay placed
\* (nothing cancels them) and the fallback adds at most one order, a buy: at
\* most 3 + 1 for an iron condor and 1 + 1 for a calendar spread.
C26_OrderBound ==
    ExecDone =>
        LET n == Len(exec_out.legs)
            k == AcceptedLegs
        IN  /\ n <= 4
            /\ Len(MultiLegs(exec_out)) = k
            /\ SubSeq(exec_out.legs, 1, k) = MultiLegs(exec_out)
            /\ exec_out.fallback =>
                  /\ n <= k + 1
                  /\ exec_in.strategy = "iron_condor" => k <= 3
                  /\ exec_in.strategy = "calendar_spread" => k <= 1
                  /\ \A j \in (k + 1)..n :
                        /\ exec_out.legs[j].label = "fallback"
                        /\ exec_out.legs[j].side = "buy"
            /\ ~exec_out.fallback =>
                  n = (IF exec_in.strategy = "iron_condor" THEN 4 ELSE 2)

\* an iron condor whose fourth leg the broker refuses: three orders stay
\* placed and the fallback buys one more contract
C26_ThreePlusOne ==
    /\ ExecDone
    /\ exec_in.strategy = "iron_condor"
    /\ exec_in.ex.accepted = 3
    /\ exec_out.fallback
    /\ exec_out.success
    /\ Len(exec_out.legs) = 4
    /\ Len(MultiLegs(exec_out)) = 3
    /\ exec_out.calls = 5

----------------------------------------------------------------------------
(* Closed positions (specification Spec) *)

\* a closed row names the threshold its stored pnl crossed and has a close
\* time; an open row has no close reason
Justified(row) ==
    IF row.status = "closed" THEN
        /\ row.closed_timestamp
        /\ \/ row.close_reason = TakeProfitReason /\ row.unrealized_pnl >= take_profit
           \/ row.close_reason = StopLossReason /\ row.unrealized_pnl <= stop_loss
    ELSE
        /\ row.status = "open"
        /\ row.close_reason = NoText
        /\ ~row.closed_timestamp

\* C27: every closed position has the take-profit or the stop-loss reason, a
\* stored pnl of at least 200 respectively at most -150, and a close time;
\* every open position has no close reason.  This holds of every row of the
\* table in every state, and of every row of the table the statements after
\* the update call of the sweep (orchestrator.py 49-54) would leave for the
\* position and pnl at hand.
C27_ClosedJustified ==
    /\ \A i \in 1..Len(positions) : Justified(positions[i])
    /\ (pc = "sweep_update" /\ current_price > 0) =>
          LET after == SweepRow(positions, SweepId, SweepPnl)
          IN  \A i \in 1..Len(after) : Justified(after[i])

\* the sweep at a position whose pnl has crossed a threshold, beside rows
\* closed earlier and a row opened in this cycle
C27_Scenario ==
    /\ pc = "sweep_update"
    /\ current_price > 0
    /\ (SweepPnl >= take_profit \/ SweepPnl <= stop_loss)
    /\ \E i \in 1..Len(positions) : positions[i].status = "closed"
    /\ Len(positions) > positions_at_start

----------------------------------------------------------------------------
(* Wing ordering of the iron condor (specification SpecExec) *)

\* the strikes of the placed legs with the label
StrikesOf(label) ==
    { exec_out.legs[k].strike :
        k \in { j \in 1..Len(exec_out.legs) : exec_out.legs[j].label = label } }

\* C29: whenever the four legs of an iron condor resolve, the long put strike
\* is at most the short put strike and the short call strike is at most the
\* long call strike: so it is for the four contracts find_strike resolves
\* and for the legs of them that are placed.
C29_WingOrdering ==
    ( /\ ExecDone
      /\ exec_in.strategy = "iron_condor"
      /\ ~exec_in.ex.raises
      /\ ~ResolutionFails ) =>
        LET ex         == exec_in.ex
            short_put  == find_strike(ex.chain, "put",  ex.spot * 95)
            long_put   == find_strike(ex.chain, "put",  ex.spot * 92)
            short_call == find_strike(ex.chain, "call", ex.spot * 105)
            long_call  == find_strike(ex.chain, "call", ex.spot * 108)
        IN  /\ NoContract \notin { short_put, long_put, short_call, long_call }
            /\ long_put.strike <= short_put.strike
            /\ short_call.strike <= long_call.strike
            /\ \A lp \in StrikesOf("long_put"), sp \in StrikesOf("short_put") : lp <= sp
            /\ \A sc \in StrikesOf("short_call"), lc \in StrikesOf("long_call") : sc <= lc
            /\ ex.accepted = 4 =>
                  /\ StrikesOf("short_put") = { short_put.strike }
                  /\ StrikesOf("long_put") = { long_put.strike }
                  /\ StrikesOf("short_call") = { short_call.strike }
                  /\ StrikesOf("long_call") = { long_call.strike }

\* the four legs placed on the chain with ties: puts 93 and 94, calls 106
\* and 107
C29_TieResolved ==
    /\ ExecDone
    /\ exec_in.strategy = "iron_condor"
    /\ exec_in.ex.chain = TieChain
    /\ exec_in.ex.accepted = 4
    /\ ~exec_out.fallback
    /\ StrikesOf("long_put") = { 93 }
    /\ StrikesOf("short_put") = { 94 }
    /\ StrikesOf("short_call") = { 106 }
    /\ StrikesOf("long_call") = { 107 }

----------------------------------------------------------------------------
(* check_risk on an account without equity (specification SpecRisk) *)

\* C30: with equity <= 0 the drawdown counts as 0 and the concentration test
\* is skipped: the idea is approved exactly when fewer than 10 positions are
\* open and the buying power is at least 2000, with risk score 0, and a
\* rejection names the position count or the buying power.
C30_NoEquityBypass ==
    (pc = "risk_done" /\ ~FetchFailed /\ RiskEquity <= 0) =>
        /\ risk_out.approved = (RiskCount < 10 /\ risk_in.broker.buying_power >= 2000)
        /\ risk_out.approved => risk_out.risk_score = 0
        /\ ~risk_out.approved =>
              /\ risk_out.risk_score = NoScore
              /\ risk_out.reason.msg =
                    (IF RiskCount >= 10 THEN "Max 10 open positions reached"
                     ELSE "Insufficient buying power")

\* an account with negative equity, losses and exposure to the idea's
\* underlying, approved
C30_Scenario ==
    /\ pc = "risk_done"
    /\ ~FetchFailed
    /\ RiskEquity < 0
    /\ RiskPl < 0
    /\ RiskExposure > 0
    /\ risk_out.approved

----------------------------------------------------------------------------
(* The cycle while the market is closed (specification Spec) *)

\* the loop task is in a cycle that found the market closed, or in the sleep
\* after it: such a cycle never asks for a snapshot
ClosedCycle ==
    /\ pc \in SweepLabels \cup { "sleep", "except" }
    /\ snapshot = "not_fetched"

\* C31: a cycle that finds the market closed goes straight to the sweep with
\* no ideas; until the next cycle starts it appends no audit row, makes no
\* submit_order call, inserts no position and decides on no idea, and its
\* only positions are those of the sweep, which works on the rows that are
\* open.
C31_MarketClosed ==
    /\ [][ /\ (pc = "cycle" /\ pc' # "cycle" /\ snapshot' = "not_fetched") =>
                 /\ pc' = "refresh"
                 /\ ideas' = << >>
                 /\ approved_trades' = approved_trades
                 /\ positions' = positions
                 /\ submit_calls' = submit_calls
           /\ ClosedCycle =>
                 /\ approved_trades' = approved_trades
                 /\ Len(positions') = Len(positions)
                 /\ submit_calls' = submit_calls
                 /\ ideas' = << >>
                 /\ decisions' = << >>
                 /\ pc' \in SweepLabels \cup { "sleep", "except", "cycle" }
       ]_vars
    /\ [](ClosedCycle =>
             /\ ideas = << >>
             /\ decisions = << >>
             /\ Len(approved_trades) = trades_at_start
             /\ Len(positions) = positions_at_start
             /\ validation = NoValidation
             /\ risk_result = NoRisk
             /\ result = NoResult
             /\ pc \in { "sweep_fetch", "sweep_update" } =>
                   open_positions = get_open_positions(positions))

\* the sweep of a closed-market cycle holding a price for an open position
C31_ClosedSweep ==
    /\ ClosedCycle
    /\ pc = "sweep_update"
    /\ current_price > 0
    /\ positions[SweepId].status = "open"

====
